---- MODULE Spec2Model ----
(***************************************************************************)
(* A model of the giota client core: bundle assembly (AddEntry, Finalize,  *)
(* NormalizedHash, Hash, SignInputs, IsValid), transfer preparation        *)
(* (PrepareTransfers, AddRemainder), proof of work chaining (DoPoW), the   *)
(* parallel nonce search, the transaction frame check and the address      *)
(* checksum.                                                               *)
(*                                                                         *)
(* Ternary data is modelled as it is in the code: a tryte is an integer in *)
(* -13..13 ('9' is 0, 'M' is 13, 'N' is -13), Trytes are sequences of      *)
(* trytes, Trits are sequences over {-1,0,1}.  All field widths of the     *)
(* hashed part of a transaction are multiples of 27 trits; the model keeps *)
(* their proportions and replaces 27 by Unit.                              *)
(***************************************************************************)
EXTENDS Integers, Sequences, FiniteSets, TLC

VARIABLES
    bundle,     \* the Bundle under construction: a sequence of Transaction
    op,         \* the last bundle operation that ran
    err,        \* what that operation returned ("nil" or an error name)
    h,          \* what the last Finalize got from NormalizedHash: [hash, incs]
    trail,      \* the bundle operations that ran, in order
    args,       \* the arguments of the last SignInputs, PrepareTransfers or DoPoW
    pw,         \* the state of the parallel PoW search
    parsed,     \* the last call of NewTransaction / UnmarshalJSON
    adr         \* the last call of Address.Checksum / WithChecksum

vars == <<bundle, op, err, h, trail, args, pw, parsed, adr>>

(***************************************************************************)
(* Bounds                                                                  *)
(***************************************************************************)
\* 27 in the code: the trits of a Timestamp, the trytes of a hash chunk.
Unit == 3
\* the entries added to a bundle one by one
MaxEntries == 2
\* the transfers of one PrepareTransfers
MaxTransfers == 2
\* 64 in the code: the bits of an int64 (Value, the totals and balances)
IntBits == 4

\* math.MinInt64 and math.MaxInt64
MinInt64 == -(2 ^ (IntBits - 1))
MaxInt64 == 2 ^ (IntBits - 1) - 1

\* the int64 a Go addition or subtraction produces: it wraps
Int64(x) == ((x - MinInt64) % (2 ^ IntBits)) + MinInt64

(***************************************************************************)
(* Trinary                                                                 *)
(***************************************************************************)
MaxTryteValue == 13

Trit == {-1, 0, 1}

Tryte == (-MaxTryteValue)..MaxTryteValue

\* transaction.go: sizes of the fields that enter the bundle hash, in trits
AddressTrinarySize == 9 * Unit
ValueTrinarySize == 3 * Unit
ObsoleteTagTrinarySize == 3 * Unit
TimestampTrinarySize == Unit
CurrentIndexTrinarySize == Unit
LastIndexTrinarySize == Unit
\* curl.HashSize
HashSize == 9 * Unit

\* a sequence given element by element, as a tuple
AsSeq(f) == SubSeq(f, 1, Len(f))

\* F of the value of v: Go computes a value where it is assigned, before the
\* statements that read it
With(v, F(_)) == CHOOSE x \in {F(r) : r \in {v}} : TRUE

\* the three trits of one tryte, little-endian balanced ternary
TryteTrits(v) ==
    LET d == v + 13
    IN  << (d % 3) - 1, ((d \div 3) % 3) - 1, (d \div 9) - 1 >>

\* Trytes.Trits(): the trits of tryte i are 3i-2 .. 3i
TrytesTrits(t) ==
    AsSeq([i \in 1..(3 * Len(t)) |->
              TryteTrits(t[(i + 2) \div 3])[((i - 1) % 3) + 1]])

\* Trits.Trytes(), for a length that is a multiple of 3
TritsTrytes(t) ==
    AsSeq([i \in 1..(Len(t) \div 3) |->
              t[3 * i - 2] + 3 * t[3 * i - 1] + 9 * t[3 * i]])

\* trinary.Int2Trits(v, size): trit i is the balanced remainder of v after
\* the i-1 lower trits are taken off and divided out
Int2Trits(v, size) ==
    AsSeq([i \in 1..size |->
              (((v + (3 ^ i - 1) \div 2) \div (3 ^ (i - 1))) % 3) - 1])

\* Trits.Int()
RECURSIVE TritsInt(_)
TritsInt(t) ==
    IF t = <<>> THEN 0 ELSE Head(t) + 3 * TritsInt(Tail(t))

\* trinary.IncTrits: add one in place, the carry runs up and is dropped at the end
RECURSIVE IncTrits(_)
IncTrits(t) ==
    IF t = <<>> THEN <<>>
    ELSE IF Head(t) < 1 THEN <<Head(t) + 1>> \o Tail(t)
         ELSE <<-1>> \o IncTrits(Tail(t))

\* trinary.Pad: fill with '9' up to size trytes
Pad(t, size) ==
    IF Len(t) >= size THEN t ELSE t \o [i \in 1..(size - Len(t)) |-> 0]

\* Go's copy(dst[off:], src): min(len) elements are overwritten, off is 0-based
CopyAt(dst, off, src) ==
    AsSeq([i \in 1..Len(dst) |->
              IF i > off /\ i - off <= Len(src) THEN src[i - off] ELSE dst[i]])

\* several copies in a row, each <<off, src>>: where two of them write the
\* same element the later one stays
CopyAll(dst, writes) ==
    AsSeq([i \in 1..Len(dst) |->
              LET hit == {j \in 1..Len(writes) :
                            i > writes[j][1] /\ i - writes[j][1] <= Len(writes[j][2])}
                  last == CHOOSE j \in hit : \A k \in hit : k <= j
              IN  IF hit = {} THEN dst[i]
                  ELSE writes[last][2][i - writes[last][1]]])

Zeros(n) == [i \in 1..n |-> 0]

\* the sum of the elements lo..hi of s: of the first half of them and of the
\* second half
RECURSIVE SumRange(_, _, _)
SumRange(s, lo, hi) ==
    IF lo > hi THEN 0
    ELSE IF lo = hi THEN s[lo]
    ELSE SumRange(s, lo, (lo + hi) \div 2)
            + SumRange(s, (lo + hi) \div 2 + 1, hi)

SumSeq(s) == SumRange(AsSeq(s), 1, Len(s))

\* Trytes.Normalize, one chunk: while the sum is positive the first value above
\* -13 is lowered by one, while it is negative the first value below 13 is
\* raised by one.  LowerFirst(c, s) is c after s steps down: the first value
\* takes the steps until it is -13, then the next one
RECURSIVE LowerFirst(_, _)
LowerFirst(c, s) ==
    IF s = 0 \/ c = <<>> THEN c
    ELSE LET room == Head(c) + MaxTryteValue
             d == IF s < room THEN s ELSE room
         IN  <<Head(c) - d>> \o LowerFirst(Tail(c), s - d)

RECURSIVE RaiseFirst(_, _)
RaiseFirst(c, s) ==
    IF s = 0 \/ c = <<>> THEN c
    ELSE LET room == MaxTryteValue - Head(c)
             d == IF s < room THEN s ELSE room
         IN  <<Head(c) + d>> \o RaiseFirst(Tail(c), s - d)

NormalizeChunk(c) ==
    With(SumSeq(c), LAMBDA sum :
        IF sum > 0 THEN LowerFirst(c, sum)
        ELSE IF sum < 0 THEN RaiseFirst(c, -sum)
             ELSE c)

\* Trytes.Normalize of a hash: three chunks of Unit trytes
Normalize(hash) ==
    NormalizeChunk(SubSeq(hash, 1, Unit))
        \o NormalizeChunk(SubSeq(hash, Unit + 1, 2 * Unit))
        \o NormalizeChunk(SubSeq(hash, 2 * Unit + 1, 3 * Unit))

(***************************************************************************)
(* Kerl: the sponge of the bundle hash and of the address checksum.  The   *)
(* state holds one value per tryte of a block; a block is absorbed with    *)
(* its last trit taken as 0, and the squeezed hash ends in a 0 trit.       *)
(***************************************************************************)
KerlInit == [p \in 1..(HashSize \div 3) |-> 0]

KerlAbsorbBlock(state, block) ==
    With(TritsTrytes([block EXCEPT ![Len(block)] = 0]), LAMBDA b :
        With(SumSeq([p \in 1..Len(b) |-> p * (b[p] + 13) + state[p]]) % 27,
             LAMBDA acc :
                AsSeq([p \in 1..Len(b) |->
                          (2 * state[p] + b[p] + 13 + acc * p + 1) % 27])))

\* the blocks lo..hi of in, absorbed one after the other: the first half of
\* them, then the second half
RECURSIVE KerlAbsorbBlocks(_, _, _, _)
KerlAbsorbBlocks(state, in, lo, hi) ==
    IF lo > hi THEN state
    ELSE IF lo = hi
    THEN KerlAbsorbBlock(state, SubSeq(in, (lo - 1) * HashSize + 1, lo * HashSize))
    ELSE With(KerlAbsorbBlocks(state, in, lo, (lo + hi) \div 2), LAMBDA half :
            KerlAbsorbBlocks(half, in, (lo + hi) \div 2 + 1, hi))

\* Absorb(in), for a length that is a multiple of HashSize
KerlAbsorb(state, in) == KerlAbsorbBlocks(state, in, 1, Len(in) \div HashSize)

\* Squeeze(HashSize) followed by Trytes()
KerlSqueeze(state) ==
    TritsTrytes([TrytesTrits([p \in 1..Len(state) |-> state[p] - 13])
                    EXCEPT ![3 * Len(state)] = 0])

(***************************************************************************)
(* Signing.  A key of security s is s fragments of 2187 trytes squeezed    *)
(* from one sponge, so fragment j of (seed, index) is the same for every   *)
(* security >= j.  A signature fragment records how often each of the      *)
(* fragment's sub-keys was hashed: 13 - v for the chunk value v.           *)
(***************************************************************************)
NoKey == <<0, 0, 0>>

NoMsg == <<0, 0, 0>>

\* signing.EmptySig: 2187 '9'
EmptySig == [key |-> NoKey, hashed |-> <<>>, msg |-> NoMsg]

\* the trytes [lo, hi) of message id as a fragment; the empty string and a run
\* of '9' are not told apart
MsgFrag(id, lo, hi) ==
    IF lo >= hi THEN EmptySig
    ELSE [key |-> NoKey, hashed |-> <<>>, msg |-> <<id, lo, hi>>]

\* utils.IsEmptyTrytes
IsEmptyTrytes(f) == f = EmptySig

\* signing.NewKey(seed, index, security)
NewKey(seed, index, security) == [j \in 1..security |-> <<seed, index + 1, j>>]

\* signing.NewAddress(seed, index, security): 81 trytes, one address per triple
NewAddress(seed, index, security) ==
    Pad(<<seed, index + 1, security>>, AddressTrinarySize \div 3)

\* an address that no modelled key derives
OutAddress(k) == Pad(<<-k>>, AddressTrinarySize \div 3)

\* signing.Sign(normalizedBundleFragment, keyFragment)
Sign(chunk, keyFragment) ==
    [key |-> keyFragment,
     hashed |-> [p \in 1..Len(chunk) |-> MaxTryteValue - chunk[p]],
     msg |-> NoMsg]

\* signing.Digest(normalizedBundleFragment, signatureFragment): each sub-key is
\* hashed 13 + v more times; the digest is that of the key when all reach 26
Digest(chunk, f) ==
    IF f.key # NoKey /\ Len(f.hashed) = Len(chunk)
          /\ \A p \in 1..Len(chunk) :
                f.hashed[p] + MaxTryteValue + chunk[p] = 2 * MaxTryteValue
    THEN f.key
    ELSE NoKey

\* the address of a sequence of fragment digests
AddressOfDigests(d) ==
    IF Len(d) >= 1 /\ d[1] # NoKey
          /\ \A j \in 1..Len(d) : d[j] = <<d[1][1], d[1][2], j>>
    THEN NewAddress(d[1][1], d[1][2] - 1, Len(d))
    ELSE OutAddress(0)

NormalizedChunk(n, j) == SubSeq(n, (j % 3) * Unit + 1, (j % 3) * Unit + Unit)

\* signing.IsValidSig(expectedAddress, signatureFragments, bundleHash)
IsValidSig(addr, sigs, hash) ==
    LET n == Normalize(hash)
        d == [i \in 1..Len(sigs) |-> Digest(NormalizedChunk(n, i - 1), sigs[i])]
    IN  AddressOfDigests(d) = addr

(***************************************************************************)
(* Bundle                                                                  *)
(***************************************************************************)
\* curl.EmptyHash, and the transaction hashes the tangle hands out
EmptyHash == Zeros(HashSize \div 3)

NoTxHash == [tip |-> 0, of |-> <<>>]

NoNonce == [for |-> <<>>]

\* Bundle.AddEntry: one transaction of the entry, bundle.go:64-80
NewEntryTx(address, v, timestamp, tag, len) ==
    [SignatureMessageFragment |-> EmptySig,
     Address |-> address,
     Value |-> v,
     ObsoleteTag |-> Pad(tag, ObsoleteTagTrinarySize \div 3),
     Timestamp |-> timestamp,
     CurrentIndex |-> len - 1,
     LastIndex |-> 0,
     Bundle |-> EmptyHash,
     TrunkTransaction |-> NoTxHash,
     BranchTransaction |-> NoTxHash,
     Tag |-> Pad(tag, ObsoleteTagTrinarySize \div 3),
     AttachmentTimestamp |-> <<>>,
     AttachmentTimestampLowerBound |-> <<>>,
     AttachmentTimestampUpperBound |-> <<>>,
     Nonce |-> NoNonce]

\* Bundle.AddEntry
RECURSIVE AddEntryFrom(_, _, _, _, _, _, _)
AddEntryFrom(b, i, securityLvl, address, value, timestamp, tag) ==
    IF i >= securityLvl THEN b
    ELSE AddEntryFrom(
            Append(b, NewEntryTx(address, IF i = 0 THEN value ELSE 0,
                                 timestamp, tag, Len(b))),
            i + 1, securityLvl, address, value, timestamp, tag)

AddEntry(b, securityLvl, address, value, timestamp, tag) ==
    AddEntryFrom(b, 0, securityLvl, address, value, timestamp,
                 IF tag = <<>> THEN SubSeq(EmptyHash, 1, Unit) ELSE tag)

\* the length of the hashed part of a transaction
HashedLen == AddressTrinarySize + ValueTrinarySize + ObsoleteTagTrinarySize
                + TimestampTrinarySize + CurrentIndexTrinarySize
                + LastIndexTrinarySize

ObsoleteTagOffset == AddressTrinarySize + ValueTrinarySize

\* copyRelevantTritsForBundleHash(buf, b, i, l); i is 0-based
CopyRelevantTritsForBundleHash(buf, b, i, l) ==
    CopyAll(buf,
            << <<0, TrytesTrits(b.Address)>>,
               <<AddressTrinarySize, Int2Trits(b.Value, ValueTrinarySize)>>,
               <<ObsoleteTagOffset, TrytesTrits(b.ObsoleteTag)>>,
               <<ObsoleteTagOffset + ObsoleteTagTrinarySize,
                 Int2Trits(b.Timestamp, TimestampTrinarySize)>>,
               <<ObsoleteTagOffset + ObsoleteTagTrinarySize + TimestampTrinarySize,
                 Int2Trits(i, CurrentIndexTrinarySize)>>,
               <<ObsoleteTagOffset + ObsoleteTagTrinarySize + TimestampTrinarySize
                    + CurrentIndexTrinarySize,
                 Int2Trits(l - 1, LastIndexTrinarySize)>> >>)

\* a loop body that hashes every transaction as the one at position 0
HashTx_PositionZero(st, b, i) ==
    With(CopyRelevantTritsForBundleHash(st.buf, b[i], 0, Len(b)), LAMBDA nb :
        [buf |-> nb, k |-> KerlAbsorb(st.k, nb)])

\* Bundle.Hash, the loop body for position i (1-based): the buffer is written
\* and absorbed; st is [buf, k], the buffer and the sponge
HashTx(st, b, i) ==
    With(CopyRelevantTritsForBundleHash(st.buf, b[i], i - 1, Len(b)), LAMBDA nb :
        [buf |-> nb, k |-> KerlAbsorb(st.k, nb)])

\* Bundle.Hash, the loop over the positions lo..hi: over the first half of
\* them, then over the second half
RECURSIVE HashFrom(_, _, _, _)
HashFrom(st, b, lo, hi) ==
    IF lo > hi THEN st
    ELSE IF lo = hi THEN HashTx(st, b, lo)
    ELSE With(HashFrom(st, b, lo, (lo + hi) \div 2), LAMBDA half :
            HashFrom(half, b, (lo + hi) \div 2 + 1, hi))

\* Bundle.Hash: one buffer, kept from one transaction to the next, absorbed
\* once per transaction
Hash(b) ==
    With(HashFrom([buf |-> Zeros(HashedLen), k |-> KerlInit], b, 1, Len(b)),
         LAMBDA st : KerlSqueeze(st.k))

\* Bundle.NormalizedHash, the buffer: every transaction's hashed trits in a row
HashBuffer(b) ==
    With(AsSeq([i \in 1..Len(b) |->
                  CopyRelevantTritsForBundleHash(Zeros(HashedLen), b[i], i - 1,
                                                 Len(b))]),
         LAMBDA parts :
            AsSeq([p \in 1..(HashedLen * Len(b)) |->
                      parts[((p - 1) \div HashedLen) + 1][((p - 1) % HashedLen) + 1]]))

\* k.Absorb(buf) and k.Squeeze of a fresh Kerl, as trytes
BufferHash(buf) == With(KerlAbsorb(KerlInit, buf), LAMBDA k : KerlSqueeze(k))

HasM(n) == \E p \in 1..Len(n) : n[p] = MaxTryteValue

BufferTag(buf) ==
    SubSeq(buf, ObsoleteTagOffset + 1, ObsoleteTagOffset + ObsoleteTagTrinarySize)

\* Bundle.NormalizedHash, the loop: [hash, tag, incs] once no value is 13
RECURSIVE NormalizedHashLoop(_, _)
\* a loop that increments the tag before it hashes for the first time
NormalizedHashLoop_IncrementsFirst(buf, incs) ==
    IF incs = 0 \/ With(BufferHash(buf), LAMBDA hash :
                        With(Normalize(hash), LAMBDA n : HasM(n)))
    THEN NormalizedHashLoop(
            CopyAt(buf, ObsoleteTagOffset, IncTrits(BufferTag(buf))), incs + 1)
    ELSE [hash |-> BufferHash(buf), tag |-> TritsTrytes(BufferTag(buf)),
          incs |-> incs]

NormalizedHashLoop(buf, incs) ==
    IF With(BufferHash(buf), LAMBDA hash :
            With(Normalize(hash), LAMBDA n : HasM(n)))
    THEN NormalizedHashLoop(
            CopyAt(buf, ObsoleteTagOffset, IncTrits(BufferTag(buf))), incs + 1)
    ELSE [hash |-> BufferHash(buf), tag |-> TritsTrytes(BufferTag(buf)),
          incs |-> incs]

\* a NormalizedHash that does not store the tag it found
NormalizedHash_TagNotStored(b) ==
    With(HashBuffer(b), LAMBDA buf :
        With(NormalizedHashLoop(buf, 0), LAMBDA r :
            [hash |-> r.hash, incs |-> r.incs, bundle |-> b]))

\* Bundle.NormalizedHash: [hash, bundle, incs]
NormalizedHash(b) ==
    With(HashBuffer(b), LAMBDA buf :
        With(NormalizedHashLoop(buf, 0), LAMBDA r :
            [hash |-> r.hash,
             incs |-> r.incs,
             bundle |-> [b EXCEPT ![1].ObsoleteTag = r.tag]]))

\* a Finalize that writes the length as LastIndex
FinalizeTx_LastIndexIsLen(tx, i, n, sig, hash) ==
    [tx EXCEPT !.SignatureMessageFragment =
                    IF Len(sig) >= i /\ sig[i] # EmptySig THEN sig[i] ELSE @,
               !.CurrentIndex = i - 1,
               !.LastIndex = n,
               !.Bundle = hash]

\* Bundle.Finalize, the loop body for position i (1-based)
FinalizeTx(tx, i, n, sig, hash) ==
    [tx EXCEPT !.SignatureMessageFragment =
                    IF Len(sig) >= i /\ sig[i] # EmptySig THEN sig[i] ELSE @,
               !.CurrentIndex = i - 1,
               !.LastIndex = n - 1,
               !.Bundle = hash]

\* Bundle.Finalize: [hash, bundle]
Finalize(b, sig) ==
    With(NormalizedHash(b), LAMBDA r :
        [hash |-> r.hash,
         incs |-> r.incs,
         bundle |-> AsSeq([i \in 1..Len(b) |->
                              FinalizeTx(r.bundle[i], i, Len(b), sig, r.hash)])])

\* the addresses of a bundle
Addresses(b) == {b[i].Address : i \in 1..Len(b)}

\* Bundle.IsValid, lines 223-233: the fragments of the later transactions at
\* the address of the input, with value 0
RECURSIVE LaterFragments(_, _, _)
LaterFragments(b, address, i) ==
    IF i > Len(b) THEN <<>>
    ELSE (IF b[i].Address = address /\ b[i].Value = 0
          THEN <<b[i].SignatureMessageFragment>> ELSE <<>>)
            \o LaterFragments(b, address, i + 1)

\* Bundle.IsValid, the loop over the bundle: [err, total, sigs]
RECURSIVE IsValidLoop(_, _, _, _)
IsValidLoop(b, index, total, sigs) ==
    IF index > Len(b) THEN [err |-> "nil", total |-> total, sigs |-> sigs]
    ELSE With(Int64(total + b[index].Value), LAMBDA t :
            LET tx == b[index]
            IN  IF tx.CurrentIndex # index - 1
                THEN [err |-> "ErrInvalidCurrentIndex", total |-> t, sigs |-> sigs]
                ELSE IF tx.LastIndex # Len(b) - 1
                THEN [err |-> "ErrInvalidLastIndex", total |-> t, sigs |-> sigs]
                ELSE IF tx.Value >= 0
                THEN IsValidLoop(b, index + 1, t, sigs)
                ELSE IF IsEmptyTrytes(tx.SignatureMessageFragment)
                THEN [err |-> "ErrNonFinalizedBundle", total |-> t, sigs |-> sigs]
                ELSE With([sigs EXCEPT ![tx.Address] =
                              (@ \o <<tx.SignatureMessageFragment>>)
                                  \o LaterFragments(b, tx.Address, index + 1)],
                          LAMBDA ns : IsValidLoop(b, index + 1, t, ns)))

\* Bundle.IsValid
IsValid(b) ==
    With(IsValidLoop(b, 1, 0, [a \in Addresses(b) |-> <<>>]), LAMBDA r :
        IF r.err # "nil" THEN r.err
        ELSE IF r.total # 0 THEN "ErrInvalidBundleBalance"
        ELSE IF With(Hash(b), LAMBDA hash :
                    \E a \in Addresses(b) :
                        r.sigs[a] # <<>> /\ ~IsValidSig(a, r.sigs[a], hash))
        THEN "ErrInvalidSignature"
        ELSE "nil")

\* the zero AddressInfo
NoAddressInfo == [Seed |-> 0, Index |-> 0, Security |-> 0]

\* AddressInfo.Address
InfoAddress(ai) == NewAddress(ai.Seed, ai.Index, ai.Security)

\* a key of the next index
InfoKey_NextIndex(ai) == NewKey(ai.Seed, ai.Index + 1, ai.Security)

\* AddressInfo.Key
InfoKey(ai) == NewKey(ai.Seed, ai.Index, ai.Security)

\* Bundle.SignInputs, lines 275-286: the first AddressInfo of the address
RECURSIVE FindInfo(_, _)
FindInfo(inputs, address) ==
    IF inputs = <<>> THEN NoAddressInfo
    ELSE IF InfoAddress(Head(inputs)) = address THEN Head(inputs)
         ELSE FindInfo(Tail(inputs), address)

\* Bundle.SignInputs, lines 299-309: the fragments j = 1 .. Security-1
RECURSIVE SignContinuations(_, _, _, _, _)
\* continuations that are all signed for the first chunk of the hash
SignContinuations_FirstChunk(b, i, j, ai, n) ==
    IF j >= ai.Security THEN [err |-> "nil", bundle |-> b]
    ELSE IF i + j > Len(b) THEN [err |-> "panic", bundle |-> b]
    ELSE IF b[i + j].Address # b[i].Address \/ b[i + j].Value # 0
    THEN SignContinuations(b, i, j + 1, ai, n)
    ELSE SignContinuations(
            [b EXCEPT ![i + j].SignatureMessageFragment =
                Sign(NormalizedChunk(n, 0), InfoKey(ai)[j + 1])],
            i, j + 1, ai, n)

SignContinuations(b, i, j, ai, n) ==
    IF j >= ai.Security THEN [err |-> "nil", bundle |-> b]
    ELSE IF i + j > Len(b) THEN [err |-> "panic", bundle |-> b]
    ELSE IF b[i + j].Address # b[i].Address \/ b[i + j].Value # 0
    THEN SignContinuations(b, i, j + 1, ai, n)
    ELSE SignContinuations(
            [b EXCEPT ![i + j].SignatureMessageFragment =
                Sign(NormalizedChunk(n, j), InfoKey(ai)[j + 1])],
            i, j + 1, ai, n)

\* Bundle.SignInputs, the loop over the bundle (i is 1-based)
RECURSIVE SignInputsFrom(_, _, _, _)
SignInputsFrom(b, i, inputs, n) ==
    IF i > Len(b) THEN [err |-> "nil", bundle |-> b]
    ELSE IF b[i].Value >= 0 THEN SignInputsFrom(b, i + 1, inputs, n)
    ELSE With(FindInfo(inputs, b[i].Address), LAMBDA ai :
            IF ai = NoAddressInfo
            THEN [err |-> "ErrKey", bundle |-> b]
            ELSE With(SignContinuations(
                        [b EXCEPT ![i].SignatureMessageFragment =
                            Sign(NormalizedChunk(n, 0), InfoKey(ai)[1])],
                        i, 1, ai, n),
                      LAMBDA r : IF r.err # "nil" THEN r
                                 ELSE SignInputsFrom(r.bundle, i + 1, inputs, n)))

\* Bundle.SignInputs: [err, bundle]
SignInputs(b, inputs) ==
    With(Hash(b), LAMBDA hash :
        With(Normalize(hash), LAMBDA n : SignInputsFrom(b, 1, inputs, n)))

(***************************************************************************)
(* Transfers                                                               *)
(***************************************************************************)
\* transaction.SignatureMessageFragmentTrinarySize / 3
SignatureMessageFragmentSizeTrinary == 2187

\* Transfers.AddOutputs, lines 69-81: the fragments k .. n-1 of a long message
RECURSIVE LongMessageFragments(_, _, _)
LongMessageFragments(m, k, n) ==
    IF k >= n THEN <<>>
    ELSE <<MsgFrag(m.id, k * SignatureMessageFragmentSizeTrinary,
                   IF k = n - 1 THEN m.len
                   ELSE (k + 1) * SignatureMessageFragmentSizeTrinary)>>
            \o LongMessageFragments(m, k + 1, n)

\* Transfers.AddOutputs: [bundle, frags, total]; a Message is [id, len]
RECURSIVE AddOutputsFrom(_, _, _, _, _)
\* an AddOutputs that adds 1 + n transactions for a message of any length
AddOutputsFrom_AlwaysOneMore(trs, b, frags, total, now) ==
    IF trs = <<>> THEN [bundle |-> b, frags |-> frags, total |-> total]
    ELSE LET tr == Head(trs)
             long == tr.Message.len > SignatureMessageFragmentSizeTrinary
             n == tr.Message.len \div SignatureMessageFragmentSizeTrinary
             nsigs == 1 + n
             fr == IF long THEN LongMessageFragments(tr.Message, 0, n)
                   ELSE <<MsgFrag(tr.Message.id, 0, tr.Message.len)>>
         IN  With(AddEntry(b, nsigs, tr.Address, tr.Value, now, tr.Tag),
                  LAMBDA nb : AddOutputsFrom(Tail(trs), nb, frags \o fr,
                                             Int64(total + tr.Value), now))

AddOutputsFrom(trs, b, frags, total, now) ==
    IF trs = <<>> THEN [bundle |-> b, frags |-> frags, total |-> total]
    ELSE LET tr == Head(trs)
             long == tr.Message.len > SignatureMessageFragmentSizeTrinary
             n == tr.Message.len \div SignatureMessageFragmentSizeTrinary
             nsigs == IF long THEN 1 + n ELSE 1
             fr == IF long THEN LongMessageFragments(tr.Message, 0, n)
                   ELSE <<MsgFrag(tr.Message.id, 0, tr.Message.len)>>
         IN  With(AddEntry(b, nsigs, tr.Address, tr.Value, now, tr.Tag),
                  LAMBDA nb : AddOutputsFrom(Tail(trs), nb, frags \o fr,
                                             Int64(total + tr.Value), now))

AddOutputs(trs, now) == AddOutputsFrom(trs, <<>>, <<>>, 0, now)

\* Balances.Total
RECURSIVE Total(_)
Total(bs) == IF bs = <<>> THEN 0 ELSE Int64(Head(bs).Value + Total(Tail(bs)))

\* API.Balances: the node's balances of addrs, KeyIndex the position
Balances(addrs, nodeBalance) ==
    [i \in 1..Len(addrs) |->
        [Address |-> addrs[i], Value |-> nodeBalance[i], KeyIndex |-> i - 1]]

\* the addresses GetInputs(seed, 0, 100, security) derives; 100 is InputRange
InputRange == 2

NewAddresses(seed, start, count, security) ==
    [i \in 1..count |-> NewAddress(seed, start + i - 1, security)]

\* a setupInputs that does not compare the total with the balances
SetupInputs_NoFundsCheck(seed, inputs, security, total, nodeBalance) ==
    LET balances ==
            IF inputs # <<>>
            THEN Balances([i \in 1..Len(inputs) |-> InfoAddress(inputs[i])],
                          nodeBalance)
            ELSE Balances(NewAddresses(seed, 0, InputRange, security), nodeBalance)
        ins == IF inputs # <<>> THEN inputs
               ELSE [i \in 1..Len(balances) |->
                        [Seed |-> seed, Index |-> balances[i].KeyIndex,
                         Security |-> security]]
    IN  [err |-> "nil", balances |-> balances, inputs |-> ins]

\* API.setupInputs: [err, balances, inputs]; inputs = <<>> stands for nil
SetupInputs(seed, inputs, security, total, nodeBalance) ==
    LET balances ==
            IF inputs # <<>>
            THEN Balances([i \in 1..Len(inputs) |-> InfoAddress(inputs[i])],
                          nodeBalance)
            ELSE Balances(NewAddresses(seed, 0, InputRange, security), nodeBalance)
        ins == IF inputs # <<>> THEN inputs
               ELSE [i \in 1..Len(balances) |->
                        [Seed |-> seed, Index |-> balances[i].KeyIndex,
                         Security |-> security]]
    IN  IF total > Total(balances)
        THEN [err |-> "ErrNotEnoughBalance", balances |-> <<>>, inputs |-> <<>>]
        ELSE [err |-> "nil", balances |-> balances, inputs |-> ins]

\* API.AddRemainder: [err, bundle]; unused is what GetUntilFirstUnusedAddress
\* returns, [err, adr]; remainder = <<>> stands for ""
RECURSIVE AddRemainder(_, _, _, _, _, _, _)
AddRemainder_WholeBalanceBack(in, b, security, remainder, unused, total, now) ==
    IF in = <<>> THEN [err |-> "nil", bundle |-> b]
    ELSE With(AddEntry(b, security, Head(in).Address, Int64(-Head(in).Value),
                       now, EmptyHash),
              LAMBDA b1 :
                LET bal == Head(in)
                    remain == Int64(bal.Value - total)
                IN  IF remain > 0
                    THEN IF remainder = <<>> /\ unused.err # "nil"
                         THEN [err |-> unused.err, bundle |-> b1]
                         ELSE [err |-> "nil",
                               bundle |-> AddEntry(b1, 1,
                                             IF remainder = <<>> THEN unused.adr
                                             ELSE remainder,
                                             bal.Value, now, EmptyHash)]
                    ELSE IF Int64(total - bal.Value) = 0
                         THEN [err |-> "nil", bundle |-> b1]
                         ELSE AddRemainder(Tail(in), b1, security, remainder,
                                           unused, Int64(total - bal.Value), now))

AddRemainder(in, b, security, remainder, unused, total, now) ==
    IF in = <<>> THEN [err |-> "nil", bundle |-> b]
    ELSE With(AddEntry(b, security, Head(in).Address, Int64(-Head(in).Value),
                       now, EmptyHash),
              LAMBDA b1 :
                LET bal == Head(in)
                    remain == Int64(bal.Value - total)
                IN  IF remain > 0
                    THEN IF remainder = <<>> /\ unused.err # "nil"
                         THEN [err |-> unused.err, bundle |-> b1]
                         ELSE [err |-> "nil",
                               bundle |-> AddEntry(b1, 1,
                                             IF remainder = <<>> THEN unused.adr
                                             ELSE remainder,
                                             remain, now, EmptyHash)]
                    ELSE IF Int64(total - bal.Value) = 0
                         THEN [err |-> "nil", bundle |-> b1]
                         ELSE AddRemainder(Tail(in), b1, security, remainder,
                                           unused, Int64(total - bal.Value), now))

\* API.PrepareTransfers: [err, bundle]
PrepareTransfers(seed, transfers, inputs, remainder, security, nodeBalance, unused, now) ==
    With(AddOutputs(transfers, now), LAMBDA c :
        IF c.total <= 0
        THEN [err |-> "nil", bundle |-> Finalize(c.bundle, c.frags).bundle]
        ELSE With(SetupInputs(seed, inputs, security, c.total, nodeBalance),
                  LAMBDA s :
            IF s.err # "nil" THEN [err |-> s.err, bundle |-> <<>>]
            ELSE With(AddRemainder(s.balances, c.bundle, security, remainder,
                                   unused, c.total, now),
                      LAMBDA r :
                IF r.err # "nil" THEN [err |-> r.err, bundle |-> <<>>]
                ELSE With(Finalize(r.bundle, c.frags), LAMBDA f :
                        SignInputs(f.bundle, s.inputs)))))

(***************************************************************************)
(* Transaction hash and proof of work chaining.  Curl is modelled as a     *)
(* hash without collisions: the hash of a transaction is its frame.        *)
(***************************************************************************)
\* bundle.MaxTimestampTrytes
MaxTimestampTrytes == [i \in 1..(TimestampTrinarySize \div 3) |-> MaxTryteValue]

\* copy(tr[offset:], field.Trits()) into a zeroed frame: a short field is
\* followed by '9', a long one is cut by the next field
Framed(t, size) == SubSeq(Pad(t, size), 1, size)

\* Transaction.Trytes: the frame
Trytes(t) ==
    [t EXCEPT !.Address = Framed(@, AddressTrinarySize \div 3),
              !.ObsoleteTag = Framed(@, ObsoleteTagTrinarySize \div 3),
              !.Bundle = Framed(@, HashSize \div 3),
              !.Tag = Framed(@, ObsoleteTagTrinarySize \div 3),
              !.AttachmentTimestamp = Framed(@, TimestampTrinarySize \div 3),
              !.AttachmentTimestampLowerBound =
                    Framed(@, TimestampTrinarySize \div 3),
              !.AttachmentTimestampUpperBound =
                    Framed(@, TimestampTrinarySize \div 3)]

\* curl.Hash of a frame; Transaction.Hash
CurlHash(frame) == [tip |-> 0, of |-> <<frame>>]

TxHash(t) == CurlHash(Trytes(t))

\* a PowFunc: the nonce found for the trytes it is given (their nonce field is
\* not read)
PowNonce(frame) == [for |-> <<[frame EXCEPT !.Nonce = NoNonce]>>]

\* a DoPoW that gives every transaction the branch of the last one
DoPoWTx_BranchEverywhere(tx, i, n, trunkTx, branchTx, prev, now) ==
    With([tx EXCEPT
            !.TrunkTransaction = IF i = n THEN trunkTx ELSE prev,
            !.BranchTransaction = branchTx,
            !.AttachmentTimestamp =
                TritsTrytes(Int2Trits(now, TimestampTrinarySize)),
            !.AttachmentTimestampLowerBound = <<>>,
            !.AttachmentTimestampUpperBound = MaxTimestampTrytes],
         LAMBDA t1 : [t1 EXCEPT !.Nonce = PowNonce(Trytes(t1))])

\* a DoPoW that sets the attachment timestamps after the nonce was found
DoPoWTx_TimestampAfterNonce(tx, i, n, trunkTx, branchTx, prev, now) ==
    With([tx EXCEPT
            !.TrunkTransaction = IF i = n THEN trunkTx ELSE prev,
            !.BranchTransaction = IF i = n THEN branchTx ELSE trunkTx],
         LAMBDA t1 :
            [t1 EXCEPT !.Nonce = PowNonce(Trytes(t1)),
                       !.AttachmentTimestamp =
                            TritsTrytes(Int2Trits(now, TimestampTrinarySize)),
                       !.AttachmentTimestampLowerBound = <<>>,
                       !.AttachmentTimestampUpperBound = MaxTimestampTrytes])

\* DoPoW, the loop body for position i (1-based) and the loop, from the last
\* transaction down; failAt is the position at which pow returns an error
DoPoWTx(tx, i, n, trunkTx, branchTx, prev, now) ==
    With([tx EXCEPT
            !.TrunkTransaction = IF i = n THEN trunkTx ELSE prev,
            !.BranchTransaction = IF i = n THEN branchTx ELSE trunkTx,
            !.AttachmentTimestamp =
                TritsTrytes(Int2Trits(now, TimestampTrinarySize)),
            !.AttachmentTimestampLowerBound = <<>>,
            !.AttachmentTimestampUpperBound = MaxTimestampTrytes],
         LAMBDA t1 : [t1 EXCEPT !.Nonce = PowNonce(Trytes(t1))])

RECURSIVE DoPoWFrom(_, _, _, _, _, _, _)
DoPoWFrom(b, i, trunkTx, branchTx, prev, now, failAt) ==
    IF i < 1 THEN [err |-> "nil", bundle |-> b]
    ELSE With(DoPoWTx(b[i], i, Len(b), trunkTx, branchTx, prev, now), LAMBDA tx :
            IF i = failAt
            THEN [err |-> "ErrPow",
                  bundle |-> [b EXCEPT ![i] = [tx EXCEPT !.Nonce = NoNonce]]]
            ELSE With(TxHash(tx), LAMBDA hash :
                    DoPoWFrom([b EXCEPT ![i] = tx], i - 1, trunkTx, branchTx,
                              hash, now, failAt)))

\* bundle.DoPoW: [err, bundle]
DoPoW(trunkTx, branchTx, b, now, failAt) ==
    DoPoWFrom(b, Len(b), trunkTx, branchTx, NoTxHash, now, failAt)

(***************************************************************************)
(* The bundle operations as a state machine                                *)
(***************************************************************************)
Seed == 1

Tip(k) == [tip |-> k, of |-> <<>>]

NoArgs == [inputs |-> <<>>, security |-> 0, total |-> 0, balances |-> <<>>,
           outputs |-> 0, trunkTx |-> NoTxHash, branchTx |-> NoTxHash,
           transfers |-> <<>>, frags |-> <<>>]

NoHash == [hash |-> <<>>, incs |-> 0]

\* the entries a caller adds: outputs, and inputs at addresses of the seed
OutputEntries ==
    {[securityLvl |-> 1, address |-> OutAddress(1), value |-> 3, tag |-> <<>>],
     [securityLvl |-> 1, address |-> OutAddress(2), value |-> 0, tag |-> <<1>>]}

InputEntries ==
    {[securityLvl |-> s, address |-> NewAddress(Seed, i, s), value |-> -3,
      tag |-> <<>>] : s \in 1..3, i \in 0..1}
        \cup {[securityLvl |-> 1, address |-> NewAddress(Seed, i, 1),
               value |-> MinInt64, tag |-> <<>>] : i \in 0..1}

\* the AddressInfos of the first InputRange addresses at one security level
InfosAt(s) == [i \in 1..InputRange |-> [Seed |-> Seed, Index |-> i - 1, Security |-> s]]

InitOther ==
    /\ pw = [phase |-> "off"]
    /\ parsed = [phase |-> "off"]
    /\ adr = [phase |-> "off"]

Init ==
    /\ bundle = <<>>
    /\ op = "init"
    /\ err = "nil"
    /\ h = NoHash
    /\ trail = <<>>
    /\ args = NoArgs
    /\ InitOther

DoAddEntry ==
    /\ op \in {"init", "AddEntry"}
    /\ Len(trail) < MaxEntries
    /\ \E e \in OutputEntries \cup InputEntries :
          /\ e.value < 0 => e.address \notin Addresses(bundle)
          /\ bundle' = AddEntry(bundle, e.securityLvl, e.address, e.value, 1, e.tag)
    /\ op' = "AddEntry"
    /\ trail' = Append(trail, "AddEntry")
    /\ UNCHANGED <<err, h, args, pw, parsed, adr>>

\* the lengths of the messages of the transfers: none, short, and around one
\* and two fragments
MessageLengths ==
    {0, 1, SignatureMessageFragmentSizeTrinary,
     SignatureMessageFragmentSizeTrinary + 1,
     2 * SignatureMessageFragmentSizeTrinary,
     2 * SignatureMessageFragmentSizeTrinary + 1}

\* transfer k of a call, of value 0, with message k of length len
MessageTransfer(k, len) ==
    [Address |-> OutAddress(k), Value |-> 0, Message |-> [id |-> k, len |-> len],
     Tag |-> <<k>>]

\* up to MaxTransfers transfers with a message each: the first of any of the
\* lengths, the others short or of two whole fragments
MessageTransferLists ==
    UNION {{[k \in 1..n |-> MessageTransfer(k, lens[k])] :
                lens \in {l \in [1..n -> MessageLengths] :
                            \A k \in 2..n :
                                l[k] \in {1, 2 * SignatureMessageFragmentSizeTrinary}}} :
           n \in 1..MaxTransfers}

\* Transfers.AddOutputs on a new bundle
DoAddOutputs ==
    /\ op = "init"
    /\ \E trs \in MessageTransferLists :
          \E c \in {AddOutputs(trs, 1)} :
              /\ bundle' = c.bundle
              /\ args' = [NoArgs EXCEPT !.transfers = trs, !.frags = c.frags,
                                        !.total = c.total,
                                        !.outputs = Len(c.bundle)]
    /\ op' = "AddOutputs"
    /\ trail' = Append(trail, "AddOutputs")
    /\ UNCHANGED <<err, h, pw, parsed, adr>>

\* Bundle.Finalize, with the fragments of AddOutputs after AddOutputs; a
\* bundle of fewer than MaxEntries operations is finalized once more
DoFinalize ==
    /\ op \in {"AddEntry", "AddOutputs", "Finalize"}
    /\ op = "Finalize" => Len(trail) <= MaxEntries /\ trail[Len(trail) - 1] # "Finalize"
    /\ \E sig \in IF op = "AddOutputs" THEN {args.frags}
                  ELSE {<<>>, <<MsgFrag(1, 0, 5)>>},
          n \in {NormalizedHash(bundle)} :
          /\ bundle' = Finalize(bundle, sig).bundle
          /\ h' = [hash |-> n.hash, incs |-> n.incs]
    /\ op' = "Finalize"
    /\ err' = "nil"
    /\ trail' = Append(trail, "Finalize")
    /\ UNCHANGED <<args, pw, parsed, adr>>

\* Bundle.SignInputs; PrepareTransfers does not sign what AddOutputs made when
\* the total is 0
DoSignInputs ==
    /\ op = "Finalize"
    /\ trail[1] # "AddOutputs"
    /\ \E s \in 1..3 :
          \E r \in {SignInputs(bundle, InfosAt(s))} :
              /\ bundle' = r.bundle
              /\ err' = r.err
              /\ args' = [NoArgs EXCEPT !.inputs = InfosAt(s), !.security = s]
    /\ op' = "SignInputs"
    /\ trail' = Append(trail, "SignInputs")
    /\ UNCHANGED <<h, pw, parsed, adr>>

\* a caller's change of one field of one transaction of the slice
Tampered(b) ==
    {[b EXCEPT ![i].Value = Int64(@ + 1)] : i \in 1..Len(b)}
        \cup {[b EXCEPT ![i].CurrentIndex = @ + 1] : i \in 1..Len(b)}
        \cup {[b EXCEPT ![i].LastIndex = @ + 1] : i \in 1..Len(b)}
        \cup {[b EXCEPT ![i].SignatureMessageFragment = EmptySig] : i \in 1..Len(b)}
        \cup {[b EXCEPT ![i].SignatureMessageFragment =
                            b[i + 1].SignatureMessageFragment] :
                i \in 1..(Len(b) - 1)}
        \cup {[b EXCEPT ![i].Timestamp = @ + 1] : i \in 1..Len(b)}

DoTamper ==
    /\ op = "SignInputs"
    /\ err = "nil"
    /\ \E b \in Tampered(bundle) : b # bundle /\ bundle' = b
    /\ op' = "Tamper"
    /\ trail' = Append(trail, "Tamper")
    /\ UNCHANGED <<err, h, args, pw, parsed, adr>>

DoIsValid ==
    /\ op \in {"AddEntry", "Finalize", "SignInputs", "Tamper", "PrepareTransfers"}
    /\ err = "nil"
    /\ err' = IsValid(bundle)
    /\ op' = "IsValid"
    /\ trail' = Append(trail, "IsValid")
    /\ UNCHANGED <<bundle, h, args, pw, parsed, adr>>

\* the transfers of a call: a value and a message length each
TransferOf(v) ==
    [Address |-> OutAddress(1), Value |-> v, Message |-> [id |-> 1, len |-> 0],
     Tag |-> <<1>>]

TransferLists ==
    {<<TransferOf(v)>> : v \in {0, 2, 3}}
        \cup (IF MaxTransfers >= 2 THEN {<<TransferOf(2), TransferOf(1)>>} ELSE {})

DoPrepareTransfers ==
    /\ op = "init"
    /\ \E transfers \in TransferLists,
          inputs \in {<<>>, <<[Seed |-> Seed, Index |-> 1, Security |-> 2]>>},
          remainder \in {<<>>, OutAddress(2)},
          security \in 1..3,
          nodeBalance \in [1..InputRange -> {0, 1, 3}],
          unused \in {[err |-> "nil", adr |-> NewAddress(Seed, InputRange, 2)],
                      [err |-> "ErrNode", adr |-> <<>>]} :
          \E r \in {PrepareTransfers(Seed, transfers, inputs, remainder, security,
                                     nodeBalance, unused, 1)},
             c \in {AddOutputs(transfers, 1)} :
              /\ bundle' = r.bundle
              /\ err' = r.err
              /\ args' = [NoArgs EXCEPT
                            !.inputs =
                                IF inputs = <<>> THEN InfosAt(security) ELSE inputs,
                            !.security = security,
                            !.total = c.total,
                            !.outputs = Len(c.bundle),
                            !.balances =
                                IF inputs = <<>> THEN nodeBalance
                                ELSE SubSeq(nodeBalance, 1, Len(inputs))]
    /\ op' = "PrepareTransfers"
    /\ trail' = Append(trail, "PrepareTransfers")
    /\ UNCHANGED <<h, pw, parsed, adr>>

DoDoPoW ==
    /\ op \in {"Finalize", "SignInputs", "PrepareTransfers"}
    /\ err = "nil"
    /\ \E failAt \in {0, 1, Len(bundle)} :
          \E r \in {DoPoW(Tip(1), Tip(2), bundle, 2, failAt)} :
              /\ bundle' = r.bundle
              /\ err' = r.err
    /\ args' = [args EXCEPT !.trunkTx = Tip(1), !.branchTx = Tip(2)]
    /\ op' = "DoPoW"
    /\ trail' = Append(trail, "DoPoW")
    /\ UNCHANGED <<h, pw, parsed, adr>>

Next ==
    \/ DoAddEntry
    \/ DoAddOutputs
    \/ DoFinalize
    \/ DoSignInputs
    \/ DoTamper
    \/ DoIsValid
    \/ DoPrepareTransfers
    \/ DoDoPoW

Spec == Init /\ [][Next]_vars

(***************************************************************************)
(* The parallel nonce search.  A transaction is the part before its nonce  *)
(* field (body) and a nonce; Curl-P-81 of the two is a small hash of three *)
(* trits whose trailing zeros are counted.  Worker w tries the nonces      *)
(* w-1, w-1+procs, ... : the regions of the workers are disjoint.          *)
(***************************************************************************)
\* PowProcs in the runs
MaxProcs == 3
\* the nonces of a worker's region
Rounds == 2
\* the transactions to attach
MaxBodies == 2

NoResult == 0 - 1

\* Curl-P-81 of the transaction made of body and nonce, as trits
PowHash(body, nonce) == Int2Trits(((body * 5 + nonce * 7 + 3) % 27) - 13, 3)

\* the zero trits at the end of a hash
RECURSIVE TrailingZeros(_)
TrailingZeros(t) ==
    IF t = <<>> \/ t[Len(t)] # 0 THEN 0
    ELSE 1 + TrailingZeros(SubSeq(t, 1, Len(t) - 1))

\* the nonce of worker w in its round k
Candidate(w, k, procs) == (w - 1) + k * procs

PowIdle ==
    [phase |-> "idle", procs |-> 0, body |-> 0, mwm |-> 0, stop |-> FALSE,
     result |-> NoResult, nonce |-> NoResult, err |-> "nil",
     pc |-> <<>>, round |-> <<>>, ret |-> <<>>]

PowInit ==
    /\ bundle = <<>>
    /\ op = "init"
    /\ err = "nil"
    /\ h = NoHash
    /\ trail = <<>>
    /\ args = NoArgs
    /\ pw = PowIdle
    /\ parsed = [phase |-> "off"]
    /\ adr = [phase |-> "off"]

\* the call: the stop flag is cleared, the result cell emptied and PowProcs
\* workers started, each at the poll of its first outer iteration
PowStart ==
    /\ pw.phase = "idle"
    /\ \E procs \in 1..MaxProcs, body \in 1..MaxBodies, mwm \in 1..2 :
          pw' = [phase |-> "run", procs |-> procs, body |-> body, mwm |-> mwm,
                 stop |-> FALSE, result |-> NoResult, nonce |-> NoResult,
                 err |-> "nil",
                 pc |-> [w \in 1..procs |-> "poll"],
                 round |-> [w \in 1..procs |-> 0],
                 ret |-> [w \in 1..procs |-> "none"]]
    /\ UNCHANGED <<bundle, op, err, h, trail, args, parsed, adr>>

\* a worker that does not look at the stop flag
WorkerPoll_IgnoresStop ==
    /\ pw.phase = "run"
    /\ \E w \in 1..pw.procs :
          /\ pw.pc[w] = "poll"
          /\ pw' = [pw EXCEPT !.pc[w] = "search"]
    /\ UNCHANGED <<bundle, op, err, h, trail, args, parsed, adr>>

\* a worker polls the stop flag between two outer iterations
WorkerPoll ==
    /\ pw.phase = "run"
    /\ \E w \in 1..pw.procs :
          /\ pw.pc[w] = "poll"
          /\ pw' = IF pw.stop
                   THEN [pw EXCEPT !.pc[w] = "done", !.ret[w] = "Interrupted"]
                   ELSE [pw EXCEPT !.pc[w] = "search"]
    /\ UNCHANGED <<bundle, op, err, h, trail, args, parsed, adr>>

\* a worker that takes a hash with one zero trit less for a win
WorkerSearch_OneTritShort ==
    /\ pw.phase = "run"
    /\ \E w \in 1..pw.procs :
          /\ pw.pc[w] = "search"
          /\ LET n == Candidate(w, pw.round[w], pw.procs)
             IN  pw' = IF TrailingZeros(PowHash(pw.body, n)) >= pw.mwm - 1
                       THEN [pw EXCEPT
                               !.result = IF @ = NoResult THEN n ELSE @,
                               !.stop = TRUE,
                               !.pc[w] = "done",
                               !.ret[w] = "found"]
                       ELSE [pw EXCEPT
                               !.round[w] = (@ + 1) % Rounds,
                               !.pc[w] = "poll"]
    /\ UNCHANGED <<bundle, op, err, h, trail, args, parsed, adr>>

\* one outer iteration of a worker: the transform of its candidate; on a win
\* the result cell is set if it is empty and the stop flag is set
WorkerSearch ==
    /\ pw.phase = "run"
    /\ \E w \in 1..pw.procs :
          /\ pw.pc[w] = "search"
          /\ LET n == Candidate(w, pw.round[w], pw.procs)
             IN  pw' = IF TrailingZeros(PowHash(pw.body, n)) >= pw.mwm
                       THEN [pw EXCEPT
                               !.result = IF @ = NoResult THEN n ELSE @,
                               !.stop = TRUE,
                               !.pc[w] = "done",
                               !.ret[w] = "found"]
                       ELSE [pw EXCEPT
                               !.round[w] = (@ + 1) % Rounds,
                               !.pc[w] = "poll"]
    /\ UNCHANGED <<bundle, op, err, h, trail, args, parsed, adr>>

\* the caller cancels the search
PowCancel ==
    /\ pw.phase = "run"
    /\ ~pw.stop
    /\ pw' = [pw EXCEPT !.stop = TRUE]
    /\ UNCHANGED <<bundle, op, err, h, trail, args, parsed, adr>>

\* the call returns when all its workers have: the nonce of the result cell,
\* or Interrupted when the cell is empty
PowReturn ==
    /\ pw.phase = "run"
    /\ \A w \in 1..pw.procs : pw.pc[w] = "done"
    /\ pw' = [pw EXCEPT !.phase = "done",
                        !.nonce = pw.result,
                        !.err = IF pw.result = NoResult THEN "Interrupted"
                                ELSE "nil"]
    /\ UNCHANGED <<bundle, op, err, h, trail, args, parsed, adr>>

PowNext ==
    \/ PowStart
    \/ WorkerPoll
    \/ WorkerSearch
    \/ PowCancel
    \/ PowReturn

PowSpec == PowInit /\ [][PowNext]_vars

\* the workers are threads of their own: one that can step does step
PowFairSpec ==
    /\ PowInit
    /\ [][PowNext]_vars
    /\ WF_vars(WorkerPoll)
    /\ WF_vars(WorkerSearch)
    /\ WF_vars(PowReturn)

(***************************************************************************)
(* Addresses and their checksum.  An address is AddressTrinarySize / 3     *)
(* trytes; the checksum is the last 27 trits of the Kerl hash of the       *)
(* address.                                                                *)
(***************************************************************************)
\* 81 and 9 in the code
AddressTrytes == AddressTrinarySize \div 3
ChecksumTrytes == Unit \div 3

\* Address.ChecksumHash
ChecksumHash(a) == KerlSqueeze(KerlAbsorb(KerlInit, TrytesTrits(a)))

\* Address.Checksum: [out, err]
Checksum_FirstTrytes(a) ==
    IF Len(a) # AddressTrytes
    THEN [out |-> <<>>, err |-> "ErrInvalidAddressLength"]
    ELSE [out |-> SubSeq(ChecksumHash(a), 1, ChecksumTrytes), err |-> "nil"]

Checksum(a) ==
    IF Len(a) # AddressTrytes
    THEN [out |-> <<>>, err |-> "ErrInvalidAddressLength"]
    ELSE [out |-> SubSeq(ChecksumHash(a),
                         AddressTrytes - ChecksumTrytes + 1, AddressTrytes),
          err |-> "nil"]

\* Address.WithChecksum: [out, err]
WithChecksum(a) ==
    IF Len(a) # AddressTrytes
    THEN [out |-> <<>>, err |-> "ErrInvalidAddressLength"]
    ELSE LET cu == Checksum(a)
         IN  IF cu.err # "nil" THEN [out |-> <<>>, err |-> cu.err]
             ELSE [out |-> a \o cu.out, err |-> "nil"]

\* Address.IsValid; a tryte sequence holds trytes only, so Trytes.IsValid
\* is nil
AddressIsValid(a) ==
    IF ~(Len(a) = AddressTrytes) THEN "ErrInvalidAddressLength"
    ELSE IF \A p \in 1..Len(a) : a[p] \in Tryte THEN "nil" ELSE "ErrInvalidTrytes"

\* Address.IsValidChecksum
IsValidChecksum(a, checksum) ==
    IF Checksum(a).err # "nil" THEN Checksum(a).err
    ELSE IF Checksum(a).out # checksum THEN "ErrInvalidChecksum"
    ELSE "nil"

\* Trytes.ToAddress on a tryte sequence: [out, err].  t is the variable of the
\* code, which holds t0[:81] from the first statement on when t0 has 90 trytes
TrytesToAddress(t0) ==
    LET t == IF Len(t0) = AddressTrytes + ChecksumTrytes
             THEN SubSeq(t0, 1, AddressTrytes) ELSE t0
    IN  IF AddressIsValid(t) # "nil" THEN [out |-> <<>>, err |-> AddressIsValid(t)]
        ELSE IF Len(t) = AddressTrytes + ChecksumTrytes
                /\ IsValidChecksum(t, SubSeq(t, AddressTrytes + 1, Len(t))) # "nil"
        THEN [out |-> <<>>,
              err |-> IsValidChecksum(t, SubSeq(t, AddressTrytes + 1, Len(t)))]
        ELSE [out |-> t, err |-> "nil"]

\* the trytes an address is made of in the calls
AddressAlphabet == {-13, 1, 13}

\* all '9' but for at most two trytes
SparseTrytes(n) ==
    {[p \in 1..n |-> IF p = i THEN v ELSE IF p = j THEN w ELSE 0] :
        i \in 1..n, j \in 1..n, v \in AddressAlphabet \cup {0},
        w \in AddressAlphabet \cup {0}}

\* the addresses of the calls: of the right length, derived from the seed,
\* one tryte short, with a checksum appended, and empty
AddressInputs ==
    SparseTrytes(AddressTrytes)
        \cup {NewAddress(Seed, i, s) : i \in 0..1, s \in 1..3}
        \cup SparseTrytes(AddressTrytes - 1)
        \cup {a \o <<c>> : a \in {NewAddress(Seed, i, 2) : i \in 0..1},
                           c \in AddressAlphabet}
        \cup {<<>>}

AdrInit ==
    /\ bundle = <<>>
    /\ op = "init"
    /\ err = "nil"
    /\ h = NoHash
    /\ trail = <<>>
    /\ args = NoArgs
    /\ pw = [phase |-> "off"]
    /\ parsed = [phase |-> "off"]
    /\ adr = [phase |-> "idle"]

DoChecksum ==
    /\ adr.phase = "idle"
    /\ \E a \in AddressInputs :
          adr' = [phase |-> "Checksum", a |-> a,
                  out |-> Checksum(a).out, err |-> Checksum(a).err]
    /\ UNCHANGED <<bundle, op, err, h, trail, args, pw, parsed>>

DoWithChecksum ==
    /\ adr.phase = "idle"
    /\ \E a \in AddressInputs :
          adr' = [phase |-> "WithChecksum", a |-> a,
                  out |-> WithChecksum(a).out, err |-> WithChecksum(a).err]
    /\ UNCHANGED <<bundle, op, err, h, trail, args, pw, parsed>>

\* the strings given to ToAddress: the addresses of the calls, and the
\* addresses of the seed followed by every tryte as the checksum
ToAddressInputs ==
    AddressInputs
        \cup {a \o <<c>> : a \in {NewAddress(Seed, i, 2) : i \in 0..1}, c \in Tryte}

DoToAddress ==
    /\ adr.phase = "idle"
    /\ \E t \in ToAddressInputs :
          adr' = [phase |-> "ToAddress", a |-> t,
                  out |-> TrytesToAddress(t).out, err |-> TrytesToAddress(t).err]
    /\ UNCHANGED <<bundle, op, err, h, trail, args, pw, parsed>>

AdrNext ==
    \/ DoChecksum
    \/ DoWithChecksum
    \/ DoToAddress

AdrSpec == AdrInit /\ [][AdrNext]_vars

(***************************************************************************)
(* The transaction frame.  A tryte string is its length and the places     *)
(* (0-based) where it is not '9': "A" for another tryte of the alphabet,   *)
(* "a" for a character that is no tryte.                                   *)
(***************************************************************************)
\* the fields of the frame in order, with their sizes in trits
TransactionFields ==
    << <<"SignatureMessageFragment", 6561>>, <<"Address", 243>>,
       <<"Value", 81>>, <<"ObsoleteTag", 81>>, <<"Timestamp", 27>>,
       <<"CurrentIndex", 27>>, <<"LastIndex", 27>>, <<"Bundle", 243>>,
       <<"TrunkTransaction", 243>>, <<"BranchTransaction", 243>>,
       <<"Tag", 81>>, <<"AttachmentTimestamp", 27>>,
       <<"AttachmentTimestampLowerBound", 27>>,
       <<"AttachmentTimestampUpperBound", 27>>, <<"Nonce", 81>> >>

\* TransactionTrinarySize
TransactionTrinarySize ==
    SumSeq([k \in 1..Len(TransactionFields) |-> TransactionFields[k][2]])

\* the trinary offset of field k
TrinaryOffset(k) == SumSeq([m \in 1..(k - 1) |-> TransactionFields[m][2]])

\* n times '9'
Nines(n) == [len |-> n, marks |-> {}]

\* s[lo:hi]
Slice(s, lo, hi) ==
    [len |-> hi - lo,
     marks |-> {<<m[1] - lo, m[2]>> : m \in {x \in s.marks : x[1] >= lo /\ x[1] < hi}}]

\* Trytes.IsValid: every character is a tryte
TrytesIsValid(s) == \A m \in s.marks : m[2] # "a"

\* the first and the end of the trytes checkTransaction compares with '9's
CheckedFrom == 2279
CheckedTo == 2295

\* the Value field of the frame: ValueTrinaryOffset and ValueTrinarySize,
\* unscaled
ValueTrinaryOffset == TrinaryOffset(3)
FrameValueTrinarySize == TransactionFields[3][2]

\* checkTransaction
CheckTransaction_Upper33(trytes) ==
    IF ~TrytesIsValid(trytes) THEN "invalid transaction"
    ELSE IF trytes.len # TransactionTrinarySize \div 3
    THEN "invalid trits counts in transaction"
    ELSE IF Slice(trytes, CheckedTo - 11, CheckedTo) # Nines(11)
    THEN "invalid value in transaction"
    ELSE "nil"

CheckTransaction_NoLengthCheck(trytes) ==
    IF ~TrytesIsValid(trytes) THEN "invalid transaction"
    ELSE IF Slice(trytes, CheckedFrom, CheckedTo) # Nines(CheckedTo - CheckedFrom)
    THEN "invalid value in transaction"
    ELSE "nil"

CheckTransaction(trytes) ==
    IF ~TrytesIsValid(trytes) THEN "invalid transaction"
    ELSE IF trytes.len # TransactionTrinarySize \div 3
    THEN "invalid trits counts in transaction"
    ELSE IF Slice(trytes, CheckedFrom, CheckedTo) # Nines(CheckedTo - CheckedFrom)
    THEN "invalid value in transaction"
    ELSE "nil"

\* Trytes.ToAddress on the sparse form: [err, adr]
ToAddress(t) ==
    LET a == IF t.len = 90 THEN Slice(t, 0, 81) ELSE t
    IN  IF a.len # 81 THEN [err |-> "ErrInvalidAddressLength", adr |-> Nines(0)]
        ELSE IF ~TrytesIsValid(a) THEN [err |-> "ErrInvalidTrytes", adr |-> Nines(0)]
        ELSE [err |-> "nil", adr |-> a]

NoTransaction == [err |-> "none"]

\* Transaction.parser: the fields cut out of the frame: [err, fields]
Parser(trytes) ==
    LET cut == [k \in 1..Len(TransactionFields) |->
                   Slice(trytes, TrinaryOffset(k) \div 3,
                         (TrinaryOffset(k) + TransactionFields[k][2]) \div 3)]
        a == ToAddress(cut[2])
    IN  IF a.err # "nil" THEN [err |-> a.err, fields |-> <<cut[1]>>]
        ELSE [err |-> "nil", fields |-> [cut EXCEPT ![2] = a.adr]]

\* NewTransaction: [err, tx]; tx = NoTransaction stands for nil
NewTransaction(trytes) ==
    IF CheckTransaction(trytes) # "nil"
    THEN [err |-> CheckTransaction(trytes), tx |-> NoTransaction]
    ELSE IF Parser(trytes).err # "nil"
    THEN [err |-> Parser(trytes).err, tx |-> NoTransaction]
    ELSE [err |-> "nil", tx |-> Parser(trytes)]

\* Transaction.UnmarshalJSON on a zero Transaction: [err, tx]; b is a JSON
\* string of trytes or another JSON value
UnmarshalJSON(b) ==
    IF b.kind # "string" THEN [err |-> "json", tx |-> NoTransaction]
    ELSE IF CheckTransaction(b.s) # "nil"
    THEN [err |-> CheckTransaction(b.s), tx |-> NoTransaction]
    ELSE [err |-> Parser(b.s).err, tx |-> Parser(b.s)]

\* the lengths and the places of the strings tried
FrameLengths ==
    {0, CheckedFrom, CheckedTo, TransactionTrinarySize \div 3 - 1,
     TransactionTrinarySize \div 3, TransactionTrinarySize \div 3 + 1}

FramePlaces ==
    {0, ValueTrinaryOffset \div 3, CheckedFrom - 1, CheckedFrom,
     (ValueTrinaryOffset + FrameValueTrinarySize - 33) \div 3, CheckedTo - 1,
     CheckedTo, TransactionTrinarySize \div 3 - 1}

FrameInputs ==
    {[len |-> n, marks |-> m] :
        n \in FrameLengths,
        m \in {x \in SUBSET (FramePlaces \X {"A", "a"}) : Cardinality(x) <= 2}}

\* a string has one character at a place, and none beyond its end
WellFormed(s) ==
    /\ \A m \in s.marks : m[1] < s.len
    /\ \A m1 \in s.marks, m2 \in s.marks : m1[1] = m2[1] => m1 = m2

ParseInit ==
    /\ bundle = <<>>
    /\ op = "init"
    /\ err = "nil"
    /\ h = NoHash
    /\ trail = <<>>
    /\ args = NoArgs
    /\ pw = [phase |-> "off"]
    /\ parsed = [phase |-> "idle"]
    /\ adr = [phase |-> "off"]

DoNewTransaction ==
    /\ parsed.phase = "idle"
    /\ \E s \in FrameInputs :
          /\ WellFormed(s)
          /\ parsed' = [phase |-> "NewTransaction", in |-> s,
                        err |-> NewTransaction(s).err, tx |-> NewTransaction(s).tx]
    /\ UNCHANGED <<bundle, op, err, h, trail, args, pw, adr>>

DoUnmarshalJSON ==
    /\ parsed.phase = "idle"
    /\ \E s \in FrameInputs, kind \in {"string", "number"} :
          /\ WellFormed(s)
          /\ kind = "number" => s = Nines(0)
          /\ parsed' = [phase |-> "UnmarshalJSON", in |-> s, kind |-> kind,
                        err |-> UnmarshalJSON([kind |-> kind, s |-> s]).err,
                        tx |-> UnmarshalJSON([kind |-> kind, s |-> s]).tx]
    /\ UNCHANGED <<bundle, op, err, h, trail, args, pw, adr>>

ParseNext ==
    \/ DoNewTransaction
    \/ DoUnmarshalJSON

ParseSpec == ParseInit /\ [][ParseNext]_vars

(***************************************************************************)
(* Bundle.NormalizedHash step by step: the buffer is filled once, then     *)
(* every turn of the loop absorbs and squeezes it, and either stores the   *)
(* tag and returns or increments the tag in the buffer.  h holds the       *)
(* buffer, the last hash and the increments so far, args the bundle as it   *)
(* was handed in.                                                          *)
(***************************************************************************)
\* the tags of the entries: none, a low one, the highest tryte, and the
\* highest tag, whose increment wraps
LoopTags ==
    {<<>>, <<1>>, <<MaxTryteValue>>,
     [p \in 1..(ObsoleteTagTrinarySize \div 3) |-> MaxTryteValue]}

LoopEntries ==
    {[securityLvl |-> 1, address |-> OutAddress(k), value |-> v, tag |-> t] :
        k \in 1..2, v \in {0, 3}, t \in LoopTags}
        \cup {[securityLvl |-> 2, address |-> NewAddress(Seed, 0, 2),
               value |-> -3, tag |-> <<>>]}

LoopInit ==
    /\ bundle = <<>>
    /\ op = "init"
    /\ err = "none"
    /\ h = [buf |-> <<>>, hash |-> <<>>, incs |-> 0]
    /\ trail = <<>>
    /\ args = [bundle0 |-> <<>>]
    /\ InitOther

\* the caller builds a non-empty bundle: a first entry, then outputs
LoopAddEntry ==
    /\ op \in {"init", "AddEntry"}
    /\ Len(trail) < MaxEntries
    /\ \E e \in IF bundle = <<>> THEN LoopEntries ELSE OutputEntries :
          bundle' = AddEntry(bundle, e.securityLvl, e.address, e.value, 1, e.tag)
    /\ op' = "AddEntry"
    /\ trail' = Append(trail, "AddEntry")
    /\ UNCHANGED <<err, h, args, pw, parsed, adr>>

\* lines 122-130: the relevant trits of every transaction are copied
LoopCopy ==
    /\ op = "AddEntry"
    /\ h' = [buf |-> HashBuffer(bundle), hash |-> <<>>, incs |-> 0]
    /\ args' = [bundle0 |-> bundle]
    /\ op' = "absorb"
    /\ UNCHANGED <<bundle, err, trail, pw, parsed, adr>>

\* lines 133-138: k.Absorb(buf), k.Squeeze(curl.HashSize), Trytes()
LoopSqueeze ==
    /\ op = "absorb"
    /\ h' = [h EXCEPT !.hash = BufferHash(h.buf)]
    /\ op' = "squeezed"
    /\ UNCHANGED <<bundle, err, trail, args, pw, parsed, adr>>

\* a return that stores the tag in every transaction
LoopReturn_EveryObsoleteTag ==
    /\ op = "squeezed"
    /\ ~HasM(Normalize(h.hash))
    /\ bundle' = [i \in 1..Len(bundle) |->
                    [bundle[i] EXCEPT !.ObsoleteTag = TritsTrytes(BufferTag(h.buf))]]
    /\ op' = "return"
    /\ err' = "nil"
    /\ UNCHANGED <<h, trail, args, pw, parsed, adr>>

\* lines 139-155: no 13 in the normalized hash, the tag is stored
LoopReturn ==
    /\ op = "squeezed"
    /\ ~HasM(Normalize(h.hash))
    /\ bundle' = [bundle EXCEPT ![1].ObsoleteTag = TritsTrytes(BufferTag(h.buf))]
    /\ op' = "return"
    /\ err' = "nil"
    /\ UNCHANGED <<h, trail, args, pw, parsed, adr>>

\* a turn of the loop that leaves the tag in the buffer as it is
LoopIncTrits_TagUnchanged ==
    /\ op = "squeezed"
    /\ HasM(Normalize(h.hash))
    /\ op' = "absorb"
    /\ UNCHANGED <<bundle, err, h, trail, args, pw, parsed, adr>>

\* lines 139-158: a 13 in the normalized hash, k.Reset() and IncTrits
LoopIncTrits ==
    /\ op = "squeezed"
    /\ HasM(Normalize(h.hash))
    /\ h' = [h EXCEPT !.buf = CopyAt(h.buf, ObsoleteTagOffset,
                                     IncTrits(BufferTag(h.buf))),
                      !.incs = @ + 1]
    /\ op' = "absorb"
    /\ UNCHANGED <<bundle, err, trail, args, pw, parsed, adr>>

LoopNext ==
    \/ LoopAddEntry
    \/ LoopCopy
    \/ LoopSqueeze
    \/ LoopReturn
    \/ LoopIncTrits

\* NormalizedHash runs in the caller's goroutine: once called, every step of
\* the loop that can be taken is taken
LoopSpec ==
    /\ LoopInit
    /\ [][LoopNext]_vars
    /\ WF_vars(LoopSqueeze)
    /\ WF_vars(LoopReturn)
    /\ WF_vars(LoopIncTrits)

(***************************************************************************)
(* API.SendTrytes as a state machine.  op is the place in the function,    *)
(* trail the requests to the node and the runs of DoPoW so far, args the   *)
(* pow argument, the local variable trytes, the tips and the failure the   *)
(* node or the PoW function answered with; bundle is the caller's slice    *)
(* and h the returned pair.                                                *)
(***************************************************************************)
\* the bundles a caller sends: finalized, of one and of two transactions
SendBundles ==
    {Finalize(AddEntry(<<>>, 1, OutAddress(1), 0, 1, <<>>), <<>>).bundle,
     Finalize(AddEntry(<<>>, 1, OutAddress(2), 0, 1, <<1>>), <<>>).bundle,
     Finalize(AddEntry(AddEntry(<<>>, 1, OutAddress(1), 3, 1, <<>>),
                       1, NewAddress(Seed, 0, 1), -3, 1, <<>>), <<>>).bundle,
     Finalize(AddEntry(<<>>, 2, NewAddress(Seed, 1, 2), 0, 1, <<>>), <<>>).bundle}

\* the errors api.do returns
NodeErrors == {"ErrNode", "ErrTimeout"}

\* the pairs of tips the node selects
TipPairs == {[trunk |-> Tip(1), branch |-> Tip(2)], [trunk |-> Tip(2), branch |-> Tip(2)]}

NoFailure == [at |-> "none", err |-> "nil"]

NoReturn == [bundle |-> <<>>, err |-> "none"]

SendInit ==
    /\ bundle = <<>>
    /\ op = "init"
    /\ err = "none"
    /\ h = NoReturn
    /\ trail = <<>>
    /\ args = [pow |-> "nil", trytes |-> <<>>, tra |-> <<>>, failure |-> NoFailure]
    /\ InitOther

\* the call, with or without a PoW function
SendCall ==
    /\ op = "init"
    /\ \E b \in SendBundles, pow \in {"nil", "func"} :
          /\ bundle' = b
          /\ args' = [args EXCEPT !.pow = pow, !.trytes = b]
    /\ op' = "GetTransactionsToApprove"
    /\ UNCHANGED <<err, h, trail, pw, parsed, adr>>

\* return nil, err
SendFails(at, e) ==
    /\ op' = "return"
    /\ err' = e
    /\ h' = [bundle |-> <<>>, err |-> e]
    /\ args' = [args EXCEPT !.failure = [at |-> at, err |-> e]]

\* lines 2201-2204
SendGetTransactionsToApprove ==
    /\ op = "GetTransactionsToApprove"
    /\ trail' = Append(trail, "getTransactionsToApprove")
    /\ \/ \E e \in NodeErrors :
             SendFails("getTransactionsToApprove", e) /\ UNCHANGED bundle
       \/ \E tra \in TipPairs :
             /\ args' = [args EXCEPT !.tra = tra]
             /\ op' = "pow"
             /\ UNCHANGED <<bundle, err, h>>
    /\ UNCHANGED <<pw, parsed, adr>>

\* an attachToTangle whatever the pow argument is
SendAttachToTangle_Always ==
    /\ op = "pow"
    /\ trail' = Append(trail, "attachToTangle")
    /\ \/ \E e \in NodeErrors : SendFails("attachToTangle", e)
       \/ \E r \in {DoPoW(args.tra.trunk, args.tra.branch, args.trytes, 3, 0)} :
             /\ args' = [args EXCEPT !.trytes = r.bundle]
             /\ op' = "broadcast"
             /\ UNCHANGED <<err, h>>
    /\ UNCHANGED <<bundle, pw, parsed, adr>>

\* lines 2207-2220: pow == nil, the node does the proof of work and answers
\* with the attached transactions
SendAttachToTangle ==
    /\ op = "pow"
    /\ args.pow = "nil"
    /\ trail' = Append(trail, "attachToTangle")
    /\ \/ \E e \in NodeErrors : SendFails("attachToTangle", e)
       \/ \E r \in {DoPoW(args.tra.trunk, args.tra.branch, args.trytes, 3, 0)} :
             /\ args' = [args EXCEPT !.trytes = r.bundle]
             /\ op' = "broadcast"
             /\ UNCHANGED <<err, h>>
    /\ UNCHANGED <<bundle, pw, parsed, adr>>

\* lines 2221-2225: bundle.DoPoW on the caller's slice
SendDoPoW ==
    /\ op = "pow"
    /\ args.pow # "nil"
    /\ trail' = Append(trail, "DoPoW")
    /\ \E failAt \in {0, 1, Len(args.trytes)} :
          \E r \in {DoPoW(args.tra.trunk, args.tra.branch, args.trytes, 2, failAt)} :
              /\ bundle' = r.bundle
              /\ IF r.err # "nil"
                 THEN /\ op' = "return"
                      /\ err' = r.err
                      /\ h' = [bundle |-> <<>>, err |-> r.err]
                      /\ args' = [args EXCEPT !.trytes = r.bundle,
                                              !.failure = [at |-> "DoPoW",
                                                           err |-> r.err]]
                 ELSE /\ args' = [args EXCEPT !.trytes = r.bundle]
                      /\ op' = "broadcast"
                      /\ UNCHANGED <<err, h>>
    /\ UNCHANGED <<pw, parsed, adr>>

\* a broadcast whose error is not looked at
SendBroadcastTransactions_ErrorIgnored ==
    /\ op = "broadcast"
    /\ trail' = Append(trail, "broadcastTransactions")
    /\ \/ \E e \in NodeErrors :
             /\ args' = [args EXCEPT !.failure = [at |-> "broadcastTransactions",
                                                  err |-> e]]
             /\ op' = "store"
       \/ /\ op' = "store"
          /\ UNCHANGED args
    /\ UNCHANGED <<bundle, err, h, pw, parsed, adr>>

\* lines 2227-2229
SendBroadcastTransactions ==
    /\ op = "broadcast"
    /\ trail' = Append(trail, "broadcastTransactions")
    /\ \/ \E e \in NodeErrors : SendFails("broadcastTransactions", e)
       \/ /\ op' = "store"
          /\ UNCHANGED <<err, h, args>>
    /\ UNCHANGED <<bundle, pw, parsed, adr>>

\* lines 2231-2235
SendStoreTransactions ==
    /\ op = "store"
    /\ trail' = Append(trail, "storeTransactions")
    /\ \/ \E e \in NodeErrors : SendFails("storeTransactions", e)
       \/ /\ op' = "return"
          /\ err' = "nil"
          /\ h' = [bundle |-> args.trytes, err |-> "nil"]
          /\ UNCHANGED args
    /\ UNCHANGED <<bundle, pw, parsed, adr>>

SendNext ==
    \/ SendCall
    \/ SendGetTransactionsToApprove
    \/ SendAttachToTangle
    \/ SendDoPoW
    \/ SendBroadcastTransactions
    \/ SendStoreTransactions

SendSpec == SendInit /\ [][SendNext]_vars

(***************************************************************************)
(* API.GetAccountData as a state machine.  After the addresses are there,  *)
(* three goroutines ask the node for the bundles, the balances and the     *)
(* spent states; each writes its own pair of variables and the caller      *)
(* reads them after wg.Wait().  args holds the arguments and what the node *)
(* answers to each request, h the variables the goroutines write and the   *)
(* returned AccountData, trail the goroutines in the order they finished.  *)
(***************************************************************************)
NoAccountData == [LatestAddress |-> <<>>]

\* the zero values of the variables of lines 1787-1790, and no result yet
NoShared ==
    [err1 |-> "nil", err2 |-> "nil", err3 |-> "nil", bundles |-> <<>>,
     balances |-> <<>>, spentState |-> <<>>, ret |-> NoAccountData]

\* what the node answers to findTransactions on n spent addresses: an error,
\* no bundle, or one bundle with a transaction at the first spent address
BundlesAnswers(spentAddrs) ==
    {[err |-> "ErrBundles", val |-> <<>>], [err |-> "nil", val |-> <<>>]}
        \cup (IF spentAddrs = <<>> THEN {}
              ELSE {[err |-> "nil",
                     val |-> <<Finalize(AddEntry(AddEntry(<<>>, 1, OutAddress(1), 3, 1, <<>>),
                                                 1, spentAddrs[1], -3, 1, <<>>),
                                        <<>>).bundle>>]})

BalancesAnswers(spentAddrs) ==
    {[err |-> "ErrBalances", val |-> <<>>]}
        \cup {[err |-> "nil", val |-> Balances(spentAddrs, v)] :
                v \in [1..Len(spentAddrs) -> {0, 3}]}

SpentAnswers(spentAddrs) ==
    {[err |-> "ErrSpent", val |-> <<>>]}
        \cup {[err |-> "nil", val |-> v] : v \in [1..Len(spentAddrs) -> BOOLEAN]}

AccInit ==
    /\ bundle = <<>>
    /\ op = "init"
    /\ err = "none"
    /\ h = NoShared
    /\ trail = <<>>
    /\ args = [startIndex |-> 0, securityLvl |-> 0, unspentAddr |-> <<>>,
               spentAddrs |-> <<>>, answers |-> <<>>]
    /\ InitOther

\* lines 1781-1785 and 1792-1808: the addresses up to the first unused one,
\* then wg.Add(3) and the three goroutines
AccCall ==
    /\ op = "init"
    /\ \E startIndex \in 0..1, securityLvl \in 1..2 :
          \/ /\ op' = "return"
             /\ err' = "ErrAddresses"
             /\ args' = [args EXCEPT !.startIndex = startIndex,
                                     !.securityLvl = securityLvl]
          \/ \E n \in 0..InputRange :
                \E spentAddrs \in {NewAddresses(Seed, 0, n, securityLvl)} :
                    \E a1 \in BundlesAnswers(spentAddrs),
                       a2 \in BalancesAnswers(spentAddrs),
                       a3 \in SpentAnswers(spentAddrs) :
                        /\ args' = [startIndex |-> startIndex,
                                    securityLvl |-> securityLvl,
                                    unspentAddr |-> NewAddress(Seed, n, securityLvl),
                                    spentAddrs |-> spentAddrs,
                                    answers |-> <<a1, a2, a3>>]
                        /\ op' = "Wait"
                        /\ UNCHANGED err
    /\ UNCHANGED <<bundle, h, trail, pw, parsed, adr>>

Finished == {trail[i] : i \in 1..Len(trail)}

\* lines 1794-1797
AccGetBundlesFromAddresses ==
    /\ op = "Wait"
    /\ 1 \notin Finished
    /\ h' = [h EXCEPT !.bundles = args.answers[1].val, !.err1 = args.answers[1].err]
    /\ trail' = Append(trail, 1)
    /\ UNCHANGED <<bundle, op, err, args, pw, parsed, adr>>

\* lines 1799-1802
AccBalances ==
    /\ op = "Wait"
    /\ 2 \notin Finished
    /\ h' = [h EXCEPT !.balances = args.answers[2].val, !.err2 = args.answers[2].err]
    /\ trail' = Append(trail, 2)
    /\ UNCHANGED <<bundle, op, err, args, pw, parsed, adr>>

\* lines 1804-1807
AccWereAddressesSpentFrom ==
    /\ op = "Wait"
    /\ 3 \notin Finished
    /\ h' = [h EXCEPT !.spentState = args.answers[3].val, !.err3 = args.answers[3].err]
    /\ trail' = Append(trail, 3)
    /\ UNCHANGED <<bundle, op, err, args, pw, parsed, adr>>

\* firstNonNulErr
RECURSIVE firstNonNulErr(_)
firstNonNulErr(errs) ==
    IF errs = <<>> THEN "nil"
    ELSE IF Head(errs) # "nil" THEN Head(errs) ELSE firstNonNulErr(Tail(errs))

\* lines 1814-1827: the hashes of the transactions at one of the addresses
RECURSIVE TxsHashes(_, _)
TxsHashes(txs, spentAddrs) ==
    IF txs = <<>> THEN <<>>
    ELSE (IF \E x \in 1..Len(spentAddrs) : Head(txs).Address = spentAddrs[x]
          THEN <<TxHash(Head(txs))>> ELSE <<>>)
            \o TxsHashes(Tail(txs), spentAddrs)

RECURSIVE BundlesTxs(_)
BundlesTxs(bundles) ==
    IF bundles = <<>> THEN <<>> ELSE Head(bundles) \o BundlesTxs(Tail(bundles))

\* lines 1829-1842: [inputs, totalBalance] from position i on
RECURSIVE ComputeBalances(_, _, _, _, _, _, _)
ComputeBalances(i, n, balances, spentState, securityLvl, startIndex, acc) ==
    IF i > n THEN acc
    ELSE IF spentState[i] \/ balances[i].Value <= 0
    THEN ComputeBalances(i + 1, n, balances, spentState, securityLvl, startIndex, acc)
    ELSE ComputeBalances(i + 1, n, balances, spentState, securityLvl, startIndex,
            [inputs |-> Append(acc.inputs,
                               [Address |-> balances[i].Address,
                                Value |-> balances[i].Value,
                                KeyIndex |-> startIndex + (i - 1),
                                Security |-> securityLvl]),
             totalBalance |-> Int64(acc.totalBalance + balances[i].Value)])

\* lines 1814-1857, from the variables err1..err3 did not fill with an error
AccountDataOf(bundles, balances, spentState, a) ==
    With(ComputeBalances(1, Len(a.spentAddrs), balances, spentState,
                         a.securityLvl, a.startIndex,
                         [inputs |-> <<>>, totalBalance |-> 0]),
         LAMBDA c :
            [LatestAddress |-> a.unspentAddr,
             Transfers |-> bundles,
             Transactions |-> TxsHashes(BundlesTxs(bundles), a.spentAddrs),
             Inputs |-> c.inputs,
             Addresses |-> Append(a.spentAddrs, a.unspentAddr),
             Balance |-> c.totalBalance])

\* a join that does not wait for the third goroutine
AccJoin_AfterTwo ==
    /\ op = "Wait"
    /\ Len(trail) >= 2
    /\ \E e \in {firstNonNulErr(<<h.err1, h.err2, h.err3>>)} :
          /\ err' = e
          /\ h' = [h EXCEPT !.ret = IF e # "nil" THEN NoAccountData
                                    ELSE [LatestAddress |-> args.unspentAddr,
                                          Transfers |-> h.bundles]]
    /\ op' = "return"
    /\ UNCHANGED <<bundle, trail, args, pw, parsed, adr>>

\* lines 1809-1859: wg.Wait() returns when the three have finished
AccJoin ==
    /\ op = "Wait"
    /\ Len(trail) = 3
    /\ \E e \in {firstNonNulErr(<<h.err1, h.err2, h.err3>>)} :
          /\ err' = e
          /\ h' = [h EXCEPT !.ret = IF e # "nil" THEN NoAccountData
                                    ELSE AccountDataOf(h.bundles, h.balances,
                                                       h.spentState, args)]
    /\ op' = "return"
    /\ UNCHANGED <<bundle, trail, args, pw, parsed, adr>>

AccNext ==
    \/ AccCall
    \/ AccGetBundlesFromAddresses
    \/ AccBalances
    \/ AccWereAddressesSpentFrom
    \/ AccJoin

AccSpec == AccInit /\ [][AccNext]_vars

(***************************************************************************)
(* API.TraverseBundle as a state machine.  args holds the transactions the *)
(* node stores, the argument and the locals txsInBundle and i, bundle the  *)
(* local slice, trail the hashes asked of the node with the answers, h the *)
(* returned pair.                                                          *)
(***************************************************************************)
\* the longest bundle stored
MaxChain == 4

\* the bundles the node stores: finalized and attached, of 1 .. MaxChain
\* transactions
RECURSIVE Outputs(_, _)
Outputs(k, n) ==
    IF n = 0 THEN <<>>
    ELSE AddEntry(Outputs(k, n - 1), 1, OutAddress(k), 0, n, <<>>)

StoredBundles ==
    {DoPoW(Tip(1), Tip(2), Finalize(Outputs(k, n), <<>>).bundle, 2, 0).bundle :
        k \in 1..2, n \in 1..MaxChain}

\* the transaction the node stores under a hash
StoredAt(stored, hash) ==
    CHOOSE t \in {stored[p] : p \in 1..Len(stored)} : TxHash(t) = hash

\* an element of make(bundle.Bundle, n)
ZeroTransaction == NewEntryTx(<<>>, 0, 0, <<>>, 1)

TraInit ==
    /\ bundle = <<>>
    /\ op = "init"
    /\ err = "none"
    /\ h = NoReturn
    /\ trail = <<>>
    /\ args = [stored |-> <<>>, tailTransactionHash |-> NoTxHash,
               txsInBundle |-> 0, i |-> 0]
    /\ InitOther

\* the call, with the hash of any stored transaction
TraCall ==
    /\ op = "init"
    /\ \E b \in StoredBundles, p \in 1..MaxChain :
          /\ p <= Len(b)
          /\ args' = [args EXCEPT !.stored = b, !.tailTransactionHash = TxHash(b[p])]
    /\ op' = "first"
    /\ UNCHANGED <<bundle, err, h, trail, pw, parsed, adr>>

\* return nil, err
TraFails(e) ==
    /\ op' = "return"
    /\ err' = e
    /\ h' = [bundle |-> <<>>, err |-> e]

\* lines 1873-1886
TraFirst ==
    /\ op = "first"
    /\ \/ \E e \in NodeErrors :
             /\ trail' = Append(trail, [hash |-> args.tailTransactionHash, err |-> e])
             /\ TraFails(e)
             /\ UNCHANGED <<bundle, args>>
       \/ /\ trail' = Append(trail, [hash |-> args.tailTransactionHash, err |-> "nil"])
          /\ \E tx \in {StoredAt(args.stored, args.tailTransactionHash)} :
                IF tx.CurrentIndex # 0
                THEN TraFails("ErrInvalidTailTransactionHash")
                     /\ UNCHANGED <<bundle, args>>
                ELSE /\ args' = [args EXCEPT !.txsInBundle = tx.LastIndex + 1, !.i = 1]
                     /\ bundle' = [p \in 1..(tx.LastIndex + 1) |->
                                     IF p = 1 THEN tx ELSE ZeroTransaction]
                     /\ op' = "loop"
                     /\ UNCHANGED <<err, h>>
    /\ UNCHANGED <<pw, parsed, adr>>

\* lines 1888-1896, one turn of the loop
TraLoop ==
    /\ op = "loop"
    /\ args.i < args.txsInBundle
    /\ \/ \E e \in NodeErrors :
             /\ trail' = Append(trail, [hash |-> args.tailTransactionHash, err |-> e])
             /\ TraFails(e)
             /\ UNCHANGED <<bundle, args>>
       \/ /\ trail' = Append(trail, [hash |-> args.tailTransactionHash, err |-> "nil"])
          /\ bundle' = [bundle EXCEPT ![args.i + 1] =
                            StoredAt(args.stored, args.tailTransactionHash)]
          /\ args' = [args EXCEPT !.i = args.i + 1]
          /\ UNCHANGED <<op, err, h>>
    /\ UNCHANGED <<pw, parsed, adr>>

\* line 1898
TraReturn ==
    /\ op = "loop"
    /\ args.i >= args.txsInBundle
    /\ op' = "return"
    /\ err' = "nil"
    /\ h' = [bundle |-> bundle, err |-> "nil"]
    /\ UNCHANGED <<bundle, trail, args, pw, parsed, adr>>

TraNext ==
    \/ TraCall
    \/ TraFirst
    \/ TraLoop
    \/ TraReturn

TraSpec == TraInit /\ [][TraNext]_vars

(***************************************************************************)
(* API.GetUntilFirstUnusedAddress as a state machine.  h holds the locals  *)
(* index and all, the variables the two goroutines write, the goroutines   *)
(* that called wg.Done() and the returned triple; args the security level  *)
(* and what the node answered for every index that was joined; trail the   *)
(* events in the order they happened.                                      *)
(***************************************************************************)
\* the highest index probed
MaxIndex == 2

NoUntil == [adr |-> <<>>, all |-> <<>>, err |-> "none"]

UntInit ==
    /\ bundle = <<>>
    /\ op = "init"
    /\ err = "none"
    /\ h = [index |-> 0, all |-> <<>>, adr |-> <<>>, hashes |-> 0,
            spentStates |-> <<>>, err1 |-> "nil", err2 |-> "nil", done |-> {},
            ret |-> NoUntil]
    /\ trail = <<>>
    /\ args = [security |-> 0, answers |-> <<>>]
    /\ InitOther

UntCall ==
    /\ op = "init"
    /\ \E security \in 1..2 : args' = [args EXCEPT !.security = security]
    /\ op' = "probe"
    /\ UNCHANGED <<bundle, err, h, trail, pw, parsed, adr>>

\* lines 2028-2037: the address of the index, fresh variables, wg.Add(2)
UntProbe ==
    /\ op = "probe"
    /\ h.index <= MaxIndex
    /\ h' = [h EXCEPT !.adr = NewAddress(Seed, h.index, args.security),
                       !.hashes = 0, !.spentStates = <<>>,
                       !.err1 = "nil", !.err2 = "nil", !.done = {}]
    /\ trail' = Append(trail, <<"NewAddress", h.index>>)
    /\ op' = "Wait"
    /\ UNCHANGED <<bundle, err, args, pw, parsed, adr>>

\* lines 2039-2044: the node fails, or reports the number of transactions
UntFindTransactions ==
    /\ op = "Wait"
    /\ 1 \notin h.done
    /\ \/ \E e \in NodeErrors : h' = [h EXCEPT !.err1 = e, !.done = h.done \cup {1}]
       \/ \E n \in 0..1 : h' = [h EXCEPT !.hashes = n, !.done = h.done \cup {1}]
    /\ trail' = Append(trail, <<"findTransactions", h.index>>)
    /\ UNCHANGED <<bundle, op, err, args, pw, parsed, adr>>

\* lines 2046-2049
UntWereAddressesSpentFrom ==
    /\ op = "Wait"
    /\ 2 \notin h.done
    /\ \/ \E e \in NodeErrors : h' = [h EXCEPT !.err2 = e, !.done = h.done \cup {2}]
       \/ \E s \in BOOLEAN :
             h' = [h EXCEPT !.spentStates = <<s>>, !.done = h.done \cup {2}]
    /\ trail' = Append(trail, <<"wereAddressesSpentFrom", h.index>>)
    /\ UNCHANGED <<bundle, op, err, args, pw, parsed, adr>>

\* the answers of the node for the index joined
Answered == [hashes |-> h.hashes, spentStates |-> h.spentStates,
             err1 |-> h.err1, err2 |-> h.err2]

\* an address counts as unused when it is not spent, whatever was found
UntJoin_OnlySpentState ==
    /\ op = "Wait"
    /\ h.done = {1, 2}
    /\ trail' = Append(trail, <<"Wait", h.index>>)
    /\ args' = [args EXCEPT !.answers = Append(args.answers, Answered)]
    /\ \E e \in {firstNonNulErr(<<h.err1, h.err2>>)} :
          IF e # "nil"
          THEN /\ op' = "return"
               /\ err' = e
               /\ h' = [h EXCEPT !.ret = [adr |-> <<>>, all |-> <<>>, err |-> e]]
          ELSE IF h.spentStates[1] = FALSE
          THEN /\ op' = "return"
               /\ err' = "nil"
               /\ h' = [h EXCEPT !.ret = [adr |-> h.adr, all |-> h.all, err |-> "nil"]]
          ELSE /\ op' = "probe"
               /\ h' = [h EXCEPT !.all = Append(h.all, h.adr), !.index = h.index + 1]
               /\ UNCHANGED err
    /\ UNCHANGED <<bundle, pw, parsed, adr>>

\* lines 2050-2061 and index++: wg.Wait() returns when both have finished
UntJoin ==
    /\ op = "Wait"
    /\ h.done = {1, 2}
    /\ trail' = Append(trail, <<"Wait", h.index>>)
    /\ args' = [args EXCEPT !.answers = Append(args.answers, Answered)]
    /\ \E e \in {firstNonNulErr(<<h.err1, h.err2>>)} :
          IF e # "nil"
          THEN /\ op' = "return"
               /\ err' = e
               /\ h' = [h EXCEPT !.ret = [adr |-> <<>>, all |-> <<>>, err |-> e]]
          ELSE IF h.hashes = 0 /\ h.spentStates[1] = FALSE
          THEN /\ op' = "return"
               /\ err' = "nil"
               /\ h' = [h EXCEPT !.ret = [adr |-> h.adr, all |-> h.all, err |-> "nil"]]
          ELSE /\ op' = "probe"
               /\ h' = [h EXCEPT !.all = Append(h.all, h.adr), !.index = h.index + 1]
               /\ UNCHANGED err
    /\ UNCHANGED <<bundle, pw, parsed, adr>>

UntNext ==
    \/ UntCall
    \/ UntProbe
    \/ UntFindTransactions
    \/ UntWereAddressesSpentFrom
    \/ UntJoin

UntSpec == UntInit /\ [][UntNext]_vars

(***************************************************************************)
(* API.GetInputs as a state machine.  args holds the arguments, h the      *)
(* local addrs and the returned pair, trail the address generations and    *)
(* the requests to the node so far.                                        *)
(***************************************************************************)
\* the bits of a uint (64 on the usual builds); start+500 wraps
UintBits == 10

Uint(x) == x % (2 ^ UintBits)

\* the widest range of addresses, line 2071
MaxAddressRange == 500

\* the arguments tried: at and next to the ends of the accepted range, and
\* where start+500 wraps
InpStarts == {0, 1, 2, 2 ^ UintBits - MaxAddressRange, 2 ^ UintBits - 1}

InpEnds ==
    {0, 1, 2, 3, MaxAddressRange, MaxAddressRange + 1, MaxAddressRange + 2,
     2 ^ UintBits - 1}

NoInputs == [balances |-> <<>>, err |-> "none"]

InpInit ==
    /\ bundle = <<>>
    /\ op = "init"
    /\ err = "none"
    /\ h = [addrs |-> <<>>, ret |-> NoInputs]
    /\ trail = <<>>
    /\ args = [start |-> 0, end |-> 0, security |-> 0]
    /\ InitOther

InpCall ==
    /\ op = "init"
    /\ \E start \in InpStarts, end \in InpEnds, security \in 1..2 :
          args' = [start |-> start, end |-> end, security |-> security]
    /\ op' = "check"
    /\ UNCHANGED <<bundle, err, h, trail, pw, parsed, adr>>

\* return nil, err
InpFails(e) ==
    /\ op' = "return"
    /\ err' = e
    /\ h' = [h EXCEPT !.ret = [balances |-> <<>>, err |-> e]]

\* a test that refuses start = end and end = start+500
InpCheck_Strict ==
    /\ op = "check"
    /\ IF args.start >= args.end \/ args.end >= Uint(args.start + MaxAddressRange)
       THEN InpFails("ErrInvalidAddressStartEnd")
       ELSE op' = "addresses" /\ UNCHANGED <<err, h>>
    /\ UNCHANGED <<bundle, trail, args, pw, parsed, adr>>

\* lines 2071-2073
InpCheck ==
    /\ op = "check"
    /\ IF args.start > args.end \/ args.end > Uint(args.start + MaxAddressRange)
       THEN InpFails("ErrInvalidAddressStartEnd")
       ELSE op' = "addresses" /\ UNCHANGED <<err, h>>
    /\ UNCHANGED <<bundle, trail, args, pw, parsed, adr>>

\* lines 2076-2077
InpNewAddresses ==
    /\ op = "addresses"
    /\ args.end > 0
    /\ h' = [h EXCEPT !.addrs = NewAddresses(Seed, args.start, args.end - args.start,
                                             args.security)]
    /\ trail' = Append(trail, "NewAddresses")
    /\ op' = "balances"
    /\ UNCHANGED <<bundle, err, args, pw, parsed, adr>>

\* lines 2078-2083: the node fails, or the first unused address is that of
\* index k and the addresses before it are returned
InpGetUntilFirstUnusedAddress ==
    /\ op = "addresses"
    /\ args.end = 0
    /\ trail' = Append(trail, "GetUntilFirstUnusedAddress")
    /\ \/ \E e \in NodeErrors : InpFails(e)
       \/ \E k \in 0..MaxIndex :
             /\ h' = [h EXCEPT !.addrs = NewAddresses(Seed, 0, k, args.security)]
             /\ op' = "balances"
             /\ UNCHANGED err
    /\ UNCHANGED <<bundle, args, pw, parsed, adr>>

\* what the node answers to getBalances on n addresses: any balances of up
\* to InputRange addresses, the same balance everywhere on more
NodeBalances(n) ==
    IF n <= InputRange THEN [1..n -> {0, 3}]
    ELSE {[i \in 1..n |-> v] : v \in {0, 3}}

\* line 2086 and API.Balances
InpBalances ==
    /\ op = "balances"
    /\ trail' = Append(trail, "getBalances")
    /\ \/ \E e \in NodeErrors : InpFails(e)
       \/ \E v \in NodeBalances(Len(h.addrs)) :
             /\ h' = [h EXCEPT !.ret = [balances |-> Balances(h.addrs, v),
                                        err |-> "nil"]]
             /\ op' = "return"
             /\ err' = "nil"
    /\ UNCHANGED <<bundle, args, pw, parsed, adr>>

InpNext ==
    \/ InpCall
    \/ InpCheck
    \/ InpNewAddresses
    \/ InpGetUntilFirstUnusedAddress
    \/ InpBalances

InpSpec == InpInit /\ [][InpNext]_vars

(***************************************************************************)
(* The transaction codec: Transaction.Trytes and NewTransaction on frames  *)
(* of the real size.  A tryte field is a string in the sparse form, its    *)
(* characters "A" .. "Z"; the int64 Value is its four balanced limbs of    *)
(* LimbTrits trits, lowest first, so that values up to and beyond 33 trits *)
(* are exact; a time.Time is its Unix second and its nanoseconds.          *)
(***************************************************************************)
\* the characters of the tryte alphabet after '9', standing for 1 .. 13 and
\* -13 .. -1
TryteChars ==
    <<"A", "B", "C", "D", "E", "F", "G", "H", "I", "J", "K", "L", "M",
      "N", "O", "P", "Q", "R", "S", "T", "U", "V", "W", "X", "Y", "Z">>

CharOf(v) == IF v > 0 THEN TryteChars[v] ELSE TryteChars[v + 27]

ValueOfChar(c) ==
    CHOOSE v \in Tryte \ {0} : CharOf(v) = c

\* a string of tryte values in the sparse form, and back
SparseOf(d) ==
    [len |-> Len(d),
     marks |-> {<<p - 1, CharOf(d[p])>> : p \in {q \in 1..Len(d) : d[q] # 0}}]

DenseOf(s) ==
    [p \in 1..s.len |->
        IF \E m \in s.marks : m[1] = p - 1
        THEN ValueOfChar((CHOOSE m \in s.marks : m[1] = p - 1)[2])
        ELSE 0]

\* trinary.IntToTrits(v, size): the balanced trits of v, lowest first
RECURSIVE IntToTrits(_, _)
IntToTrits(v, size) ==
    IF size = 0 THEN <<>>
    ELSE With(((v + 1) % 3) - 1, LAMBDA r :
            <<r>> \o IntToTrits((v - r) \div 3, size - 1))

\* the trits of a limb: three limbs are the trits of Value that the frame
\* check leaves free, and four limbs hold an int64
LimbTrits == (3 * CheckedFrom - ValueTrinaryOffset) \div 3

\* trinary.IntToTrits(v, size) on the limbs of v
LimbsToTrits(limbs, size) ==
    With(IntToTrits(limbs[1], LimbTrits) \o IntToTrits(limbs[2], LimbTrits)
            \o IntToTrits(limbs[3], LimbTrits) \o IntToTrits(limbs[4], LimbTrits),
         LAMBDA low :
            [p \in 1..size |-> IF p <= Len(low) THEN low[p] ELSE 0])

\* Trits.Int() as limbs; the trits above the limbs are 0 in an int64
TritsToLimbs(trits) ==
    [k \in 1..4 |->
        TritsInt(SubSeq(trits, (k - 1) * LimbTrits + 1, k * LimbTrits))]

\* the strings Transaction.Trytes copies into the frame, in the order of the
\* fields
FieldTrytes(t) ==
    << t.SignatureMessageFragment, t.Address,
       SparseOf(TritsTrytes(LimbsToTrits(t.Value, TransactionFields[3][2]))),
       t.ObsoleteTag,
       SparseOf(TritsTrytes(IntToTrits(t.Timestamp.sec, TransactionFields[5][2]))),
       SparseOf(TritsTrytes(IntToTrits(t.CurrentIndex, TransactionFields[6][2]))),
       SparseOf(TritsTrytes(IntToTrits(t.LastIndex, TransactionFields[7][2]))),
       t.Bundle, t.TrunkTransaction, t.BranchTransaction, t.Tag,
       t.AttachmentTimestamp, t.AttachmentTimestampLowerBound,
       t.AttachmentTimestampUpperBound, t.Nonce >>

\* the frame after the copies wr[1], wr[2], ... at the offsets of the fields:
\* a copy ends at the end of the frame, and a later copy overwrites an
\* earlier one where they meet
FrameOfCopies_ValueAtObsoleteTag(wr) ==
    LET off(k) == TrinaryOffset(IF k = 3 THEN 4 ELSE k) \div 3
        covered(p, k) ==
            \E j \in (k + 1)..Len(wr) : p >= off(j) /\ p < off(j) + wr[j].len
    IN  [len |-> TransactionTrinarySize \div 3,
         marks |-> UNION {
            {<<m[1] + off(k), m[2]>> :
                m \in {x \in wr[k].marks :
                          /\ x[1] + off(k) < TransactionTrinarySize \div 3
                          /\ ~covered(x[1] + off(k), k)}} :
            k \in 1..Len(wr)}]

FrameOfCopies(wr) ==
    LET off(k) == TrinaryOffset(k) \div 3
        covered(p, k) ==
            \E j \in (k + 1)..Len(wr) : p >= off(j) /\ p < off(j) + wr[j].len
    IN  [len |-> TransactionTrinarySize \div 3,
         marks |-> UNION {
            {<<m[1] + off(k), m[2]>> :
                m \in {x \in wr[k].marks :
                          /\ x[1] + off(k) < TransactionTrinarySize \div 3
                          /\ ~covered(x[1] + off(k), k)}} :
            k \in 1..Len(wr)}]

\* Transaction.Trytes
TransactionTrytes(t) == FrameOfCopies(FieldTrytes(t))

\* Transaction.parser, the fields after their conversions; f is the frame
\* cut into its fields, the address already checked
ParsedFields(f) ==
    [SignatureMessageFragment |-> f[1],
     Address |-> f[2],
     Value |-> TritsToLimbs(TrytesTrits(DenseOf(f[3]))),
     ObsoleteTag |-> f[4],
     Timestamp |-> [sec |-> TritsInt(TrytesTrits(DenseOf(f[5]))), nsec |-> 0],
     CurrentIndex |-> TritsInt(TrytesTrits(DenseOf(f[6]))),
     LastIndex |-> TritsInt(TrytesTrits(DenseOf(f[7]))),
     Bundle |-> f[8],
     TrunkTransaction |-> f[9],
     BranchTransaction |-> f[10],
     Tag |-> f[11],
     AttachmentTimestamp |-> f[12],
     AttachmentTimestampLowerBound |-> f[13],
     AttachmentTimestampUpperBound |-> f[14],
     Nonce |-> f[15]]

\* NewTransaction with the fields converted: [err, tx]
NewTransactionOf(trytes) ==
    With(NewTransaction(trytes), LAMBDA r :
        IF r.err # "nil" THEN [err |-> r.err, tx |-> NoTransaction]
        ELSE [err |-> "nil", tx |-> ParsedFields(r.tx.fields)])

\* a tryte field of n trytes: all '9', or with other trytes at both ends
FieldValues(n) ==
    {Nines(n), [len |-> n, marks |-> {<<0, "A">>, <<n - 1, "Z">>}]}

\* the largest limb
MaxLimb == (3 ^ LimbTrits - 1) \div 2

\* the transactions encoded: values at and beyond 33 trits, times with and
\* without nanoseconds, fields of the frame's length and the empty lower
\* bound DoPoW leaves
CodecTransactions ==
    {[SignatureMessageFragment |-> sig,
      Address |-> a,
      Value |-> v,
      ObsoleteTag |-> Nines(TransactionFields[4][2] \div 3),
      Timestamp |-> [sec |-> sec, nsec |-> nsec],
      CurrentIndex |-> i,
      LastIndex |-> 1,
      Bundle |-> Nines(TransactionFields[8][2] \div 3),
      TrunkTransaction |-> Nines(TransactionFields[9][2] \div 3),
      BranchTransaction |-> Nines(TransactionFields[10][2] \div 3),
      Tag |-> tag,
      AttachmentTimestamp |-> Nines(TransactionFields[12][2] \div 3),
      AttachmentTimestampLowerBound |-> lb,
      AttachmentTimestampUpperBound |-> Nines(TransactionFields[14][2] \div 3),
      Nonce |-> SparseOf([p \in 1..(TransactionFields[15][2] \div 3) |-> MaxTryteValue])] :
        sig \in FieldValues(TransactionFields[1][2] \div 3),
        a \in FieldValues(TransactionFields[2][2] \div 3),
        v \in {<<0, 0, 0, 0>>, <<3, 0, 0, 0>>, <<-14, 1, 0, 0>>,
               <<MaxLimb, MaxLimb, MaxLimb, 0>>,
               <<-MaxLimb, -MaxLimb, -MaxLimb, 0>>, <<0, 0, 0, 1>>},
        sec \in {0, 5}, nsec \in {0, 1}, i \in {0, 1},
        tag \in FieldValues(TransactionFields[11][2] \div 3),
        lb \in {Nines(0), Nines(TransactionFields[13][2] \div 3)}}

\* the frames decoded: of the right length, with other trytes at the first
\* place of up to two fields, at the last place of the frame or in the part
\* of Value that has to be '9'
CodecPlaces ==
    {TrinaryOffset(k) \div 3 : k \in 1..Len(TransactionFields)}
        \cup {CheckedFrom - 1, CheckedFrom, TransactionTrinarySize \div 3 - 1}

CodecFrames ==
    {[len |-> TransactionTrinarySize \div 3, marks |-> m] :
        m \in {{}} \cup {{<<p, c>>} : p \in CodecPlaces, c \in {"B", "Y"}}
                  \cup {{<<x[1], "B">>, <<x[2], "Y">>} :
                           x \in {y \in CodecPlaces \X CodecPlaces : y[1] # y[2]}}}

CodecInit ==
    /\ bundle = <<>>
    /\ op = "init"
    /\ err = "nil"
    /\ h = NoHash
    /\ trail = <<>>
    /\ args = NoArgs
    /\ pw = [phase |-> "off"]
    /\ parsed = [phase |-> "idle"]
    /\ adr = [phase |-> "off"]

\* NewTransaction(t.Trytes())
DoTrytesNewTransaction ==
    /\ parsed.phase = "idle"
    /\ \E t \in CodecTransactions :
          \E s \in {TransactionTrytes(t)} :
              \E r \in {NewTransactionOf(s)} :
                  parsed' = [phase |-> "TrytesNewTransaction", t |-> t, in |-> s,
                             err |-> r.err, tx |-> r.tx,
                             out |-> Nines(0)]
    /\ UNCHANGED <<bundle, op, err, h, trail, args, pw, adr>>

\* NewTransaction(s), and Trytes() of the transaction when there is one
DoNewTransactionTrytes ==
    /\ parsed.phase = "idle"
    /\ \E s \in CodecFrames :
          \E r \in {NewTransactionOf(s)} :
              parsed' = [phase |-> "NewTransactionTrytes", t |-> NoTransaction,
                         in |-> s, err |-> r.err, tx |-> r.tx,
                         out |-> IF r.err = "nil" THEN TransactionTrytes(r.tx)
                                 ELSE Nines(0)]
    /\ UNCHANGED <<bundle, op, err, h, trail, args, pw, adr>>

CodecNext ==
    \/ DoTrytesNewTransaction
    \/ DoNewTransactionTrytes

CodecSpec == CodecInit /\ [][CodecNext]_vars

(***************************************************************************)
(* Claims                                                                  *)
(***************************************************************************)
RECURSIVE SumValues(_)
SumValues(b) == IF b = <<>> THEN 0 ELSE Head(b).Value + SumValues(Tail(b))

HasInput(b) == \E i \in 1..Len(b) : b[i].Value < 0

\* C1: after Finalize returns nil on a non-empty bundle, every position i has
\* CurrentIndex = i, LastIndex = len - 1 and the Bundle field equal to the hash
\* that NormalizedHash returned.
C1_FinalizeSetsIndicesAndHash ==
    op = "Finalize" /\ err = "nil" =>
        /\ Len(bundle) >= 1
        /\ \A i \in 1..Len(bundle) :
              /\ bundle[i].CurrentIndex = i - 1
              /\ bundle[i].LastIndex = Len(bundle) - 1
              /\ bundle[i].Bundle = h.hash

C1_Witness ==
    /\ op = "Finalize" /\ err = "nil"
    /\ Len(bundle) >= 3
    /\ h.incs >= 1
    /\ bundle[3].Bundle = h.hash

\* C2: after Finalize returns nil, the hash that Bundle.Hash recomputes from
\* the stored transactions, the persisted ObsoleteTag of transaction 0
\* included, normalizes to 81 values none of which is 13.
C2_RecomputedHashHasNoM ==
    op = "Finalize" /\ err = "nil" =>
        /\ Len(Normalize(Hash(bundle))) = HashSize \div 3
        /\ ~HasM(Normalize(Hash(bundle)))

C2_Witness ==
    /\ op = "Finalize" /\ err = "nil"
    /\ h.incs >= 1
    /\ Len(bundle) >= 2
    /\ ~HasM(Normalize(Hash(bundle)))

\* the fragments IsValid collects for an address: for each of its inputs, in
\* order, the input's fragment and those of the later transactions at the
\* address with value 0
RECURSIVE Collected(_, _, _)
Collected(b, a, i) ==
    IF i > Len(b) THEN <<>>
    ELSE (IF b[i].Address = a /\ b[i].Value < 0
          THEN <<b[i].SignatureMessageFragment>>
                  \o [k \in 1..Cardinality({m \in (i + 1)..Len(b) :
                                              b[m].Address = a /\ b[m].Value = 0}) |->
                        b[CHOOSE m \in (i + 1)..Len(b) :
                            /\ b[m].Address = a /\ b[m].Value = 0
                            /\ Cardinality({q \in (i + 1)..m :
                                    b[q].Address = a /\ b[q].Value = 0}) = k
                          ].SignatureMessageFragment]
          ELSE <<>>)
            \o Collected(b, a, i + 1)

BundleErrors ==
    {"ErrInvalidCurrentIndex", "ErrInvalidLastIndex", "ErrNonFinalizedBundle",
     "ErrInvalidBundleBalance", "ErrInvalidSignature"}

BundleIsValid(b) ==
    /\ \A i \in 1..Len(b) : b[i].CurrentIndex = i - 1
    /\ \A i \in 1..Len(b) : b[i].LastIndex = Len(b) - 1
    /\ \A i \in 1..Len(b) :
          b[i].Value < 0 => b[i].SignatureMessageFragment # EmptySig
    /\ SumValues(b) = 0
    /\ \A i \in 1..Len(b) :
          b[i].Value < 0 =>
              IsValidSig(b[i].Address, Collected(b, b[i].Address, 1), Hash(b))

\* C3: IsValid returns nil if and only if the indices are those of the
\* positions, every input has a non-empty fragment, the values sum to 0 and the
\* fragments collected for every address with an input verify against the
\* bundle hash; otherwise it returns one of its five errors.
C3_IsValidIffWellFormed ==
    op = "IsValid" =>
        /\ err = "nil" <=> BundleIsValid(bundle)
        /\ err # "nil" => err \in BundleErrors

\* the bundle was built, finalized and signed with the keys of its input
\* addresses at the security level its entries were added with, and was not
\* changed since
SignedUntouched ==
    /\ op = "IsValid"
    /\ \/ trail = <<"PrepareTransfers", "IsValid">>
       \/ /\ Len(trail) >= 4
          /\ SubSeq(trail, Len(trail) - 2, Len(trail)) =
                <<"Finalize", "SignInputs", "IsValid">>
    /\ \A k \in 1..Len(args.inputs) : args.inputs[k].Security = args.security
    /\ \A i \in 1..Len(bundle) :
          bundle[i].Value < 0 =>
              \E k \in 1..Len(args.inputs) :
                  bundle[i].Address = InfoAddress(args.inputs[k])
    /\ SumValues(bundle) = 0
    /\ HasInput(bundle)

RECURSIVE Covering(_, _, _)
Covering(bals, total, k) ==
    IF k >= Len(bals) \/ SumSeq(SubSeq(bals, 1, k)) >= total THEN k
    ELSE Covering(bals, total, k + 1)

\* C5: when PrepareTransfers succeeds with a positive total output value, the
\* values of the bundle sum to 0: the inputs are consumed in order up to the
\* first that covers the outstanding amount, and one remainder output is
\* added exactly when that input's balance exceeds it.
C5_PreparedBundleBalances ==
    op = "PrepareTransfers" /\ err = "nil" /\ args.total > 0 =>
        LET k == Covering(args.balances, args.total, 1)
            used == SumSeq(SubSeq(args.balances, 1, k))
            rem == IF used > args.total THEN 1 ELSE 0
            first(i) == args.outputs + (i - 1) * args.security + 1
        IN  /\ SumValues(bundle) = 0
            /\ used >= args.total
            /\ Len(bundle) = args.outputs + k * args.security + rem
            /\ \A i \in 1..k : bundle[first(i)].Value = -args.balances[i]
            /\ Cardinality({i \in 1..Len(bundle) : bundle[i].Value < 0}) =
                  Cardinality({i \in 1..k : args.balances[i] > 0})
            /\ rem = 1 =>
                  /\ bundle[Len(bundle)].Value = used - args.total
                  /\ \A i \in (args.outputs + 1)..(Len(bundle) - 1) :
                        bundle[i].Value <= 0
            /\ rem = 0 =>
                  \A i \in (args.outputs + 1)..Len(bundle) : bundle[i].Value <= 0

C5_Witness ==
    /\ op = "PrepareTransfers" /\ err = "nil" /\ args.total > 0
    /\ Covering(args.balances, args.total, 1) = 2
    /\ bundle[Len(bundle)].Value = 1
    /\ SumValues(bundle) = 0

\* C6: after DoPoW returns nil on a bundle of n >= 1 transactions, the last
\* one has trunk trunkTx and branch branchTx, and every other one has branch
\* trunkTx and as trunk the hash of its successor as it stands at return.
C6_TrunkBranchChain ==
    op = "DoPoW" /\ err = "nil" /\ Len(bundle) >= 1 =>
        LET n == Len(bundle)
        IN  /\ bundle[n].TrunkTransaction = args.trunkTx
            /\ bundle[n].BranchTransaction = args.branchTx
            /\ \A i \in 1..(n - 1) :
                  /\ bundle[i].BranchTransaction = args.trunkTx
                  /\ bundle[i].TrunkTransaction = TxHash(bundle[i + 1])

C6_Witness ==
    /\ op = "DoPoW" /\ err = "nil"
    /\ Len(bundle) >= 3
    /\ bundle[1].TrunkTransaction = TxHash(bundle[2])
    /\ bundle[2].TrunkTransaction = TxHash(bundle[3])

\* C7: whatever the number of workers, a nonce the search returns without
\* error gives the transaction a hash with at least MWM trailing zero trits,
\* whichever worker found it.
C7_ReturnedNonceIsValid ==
    pw.phase = "done" /\ pw.err = "nil" =>
        /\ pw.nonce # NoResult
        /\ TrailingZeros(PowHash(pw.body, pw.nonce)) >= pw.mwm

C7_Witness ==
    /\ pw.phase = "done" /\ pw.err = "nil"
    /\ pw.procs = MaxProcs
    /\ Cardinality({w \in 1..pw.procs : pw.ret[w] = "found"}) >= 2
    /\ TrailingZeros(PowHash(pw.body, pw.nonce)) >= pw.mwm

\* a worker's step at the poll of a set stop flag ends the worker with
\* Interrupted
PollObservesStop ==
    \A w \in 1..MaxProcs :
        (/\ pw.phase = "run"
         /\ w <= pw.procs
         /\ pw.stop /\ pw.pc[w] = "poll"
         /\ pw'.pc[w] # "poll")
            => pw'.pc[w] = "done" /\ pw'.ret[w] = "Interrupted"

StoppedWithoutSolution ==
    pw.phase \in {"run", "done"} =>
        \A w \in 1..pw.procs :
            pw.pc[w] = "done" /\ pw.ret[w] # "found" => pw.ret[w] = "Interrupted"

\* C8: once the stop flag is set, by a worker that found a solution or by the
\* caller, every worker sees it at its next poll and ends; a worker that ends
\* without a solution returns Interrupted; no worker searches forever.
C8_StopEndsEveryWorker ==
    /\ [][PollObservesStop]_vars
    /\ []StoppedWithoutSolution
    /\ (pw.phase = "run" /\ pw.stop) ~>
            (\A w \in 1..pw.procs : pw.pc[w] = "done")

C8_Witness ==
    /\ pw.phase = "done"
    /\ pw.procs = MaxProcs
    /\ \E w \in 1..pw.procs : pw.ret[w] = "found"
    /\ \E w \in 1..pw.procs : pw.ret[w] = "Interrupted" /\ pw.round[w] > 0

\* C10: for an address a of 81 trytes, WithChecksum is a followed by the
\* trytes [72, 81) of the Kerl hash of a, which is what Checksum returns; for
\* an address of another length both return the address length error.
C10_WithChecksumAppendsHashTail ==
    adr.phase \in {"Checksum", "WithChecksum"} =>
        LET tail == SubSeq(KerlSqueeze(KerlAbsorb(KerlInit, TrytesTrits(adr.a))),
                           AddressTrytes - ChecksumTrytes + 1, AddressTrytes)
        IN  IF Len(adr.a) # AddressTrytes
            THEN adr.err = "ErrInvalidAddressLength" /\ adr.out = <<>>
            ELSE /\ adr.err = "nil"
                 /\ adr.phase = "Checksum" => adr.out = tail
                 /\ adr.phase = "WithChecksum" =>
                       /\ Len(adr.out) = AddressTrytes + ChecksumTrytes
                       /\ SubSeq(adr.out, 1, AddressTrytes) = adr.a
                       /\ SubSeq(adr.out, AddressTrytes + 1, Len(adr.out)) = tail
                       /\ adr.out = adr.a \o Checksum(adr.a).out

C10_Witness ==
    /\ adr.phase = "WithChecksum"
    /\ adr.err = "nil"
    /\ adr.a = NewAddress(Seed, 1, 2)
    /\ Len(adr.out) = AddressTrytes + ChecksumTrytes
    /\ adr.out[Len(adr.out)] # 0

\* C9: NewTransaction and UnmarshalJSON accept a string only if all its
\* characters are trytes, its length is 2673 and its trytes [2279, 2295) are
\* all '9'; any other input gives an error and no Transaction.
C9_FrameAcceptedOnlyIfWellFormed ==
    parsed.phase \in {"NewTransaction", "UnmarshalJSON"} =>
        LET s == parsed.in
            good == /\ \A m \in s.marks : m[2] = "A"
                    /\ s.len = 2673
                    /\ \A m \in s.marks : m[1] < 2279 \/ m[1] >= 2295
        IN  /\ parsed.err = "nil" => good
            /\ parsed.err = "nil" => parsed.tx # NoTransaction
            /\ parsed.err # "nil" => parsed.tx = NoTransaction
            /\ (parsed.phase = "NewTransaction" /\ good) => parsed.err = "nil"

C9_Witness ==
    /\ parsed.phase = "UnmarshalJSON"
    /\ parsed.err = "nil"
    /\ parsed.in.len = 2673
    /\ parsed.in.marks = {<<2278, "A">>, <<2295, "A">>}
    /\ parsed.tx # NoTransaction

\* C11: ToAddress, given 90 trytes whose last 9 are not the checksum of the
\* first 81, returns ErrInvalidChecksum and no address; given 90 trytes it
\* returns the 81-tryte address only when the checksum matches.
C11_ToAddressChecksValidChecksum ==
    (adr.phase = "ToAddress" /\ Len(adr.a) = AddressTrytes + ChecksumTrytes) =>
        LET a == SubSeq(adr.a, 1, AddressTrytes)
            checksum == SubSeq(adr.a, AddressTrytes + 1, Len(adr.a))
        IN  IF checksum # Checksum(a).out
            THEN adr.err = "ErrInvalidChecksum" /\ adr.out = <<>>
            ELSE adr.err = "nil" /\ adr.out = a

\* the balances of the inputs of b: what its transactions of negative value take
RECURSIVE InputsTotal(_)
InputsTotal(b) ==
    IF b = <<>> THEN 0
    ELSE (IF Head(b).Value < 0 THEN -Head(b).Value ELSE 0) + InputsTotal(Tail(b))

\* C12: whenever the total value of the transfers exceeds the sum of the
\* balances the node reports for the candidate inputs, PrepareTransfers returns
\* ErrNotEnoughBalance and a nil bundle; a bundle it returns never has inputs
\* whose balances sum to less than the total of the outputs.
C12_NotEnoughBalanceIsRefused ==
    op = "PrepareTransfers" =>
        /\ args.total > SumSeq(args.balances) =>
              err = "ErrNotEnoughBalance" /\ bundle = <<>>
        /\ bundle # <<>> => InputsTotal(bundle) >= args.total

C12_Witness ==
    /\ op = "PrepareTransfers"
    /\ Len(args.balances) = 2
    /\ args.balances[1] > 0 /\ args.balances[2] > 0
    /\ args.total > SumSeq(args.balances)
    /\ err = "ErrNotEnoughBalance"
    /\ bundle = <<>>

\* the positions of b at the address of transfer t
TransferEntries(b, trs, t) == {i \in 1..Len(b) : b[i].Address = trs[t].Address}

\* C13 as stated: for every transfer, AddOutputs appends exactly
\* 1 + floor(len(Message) / 2187) transactions at the transfer's address, for
\* every message length.
C13_OneMoreThanWholeFragments ==
    op = "AddOutputs" =>
        \A t \in 1..Len(args.transfers) :
            Cardinality(TransferEntries(bundle, args.transfers, t)) =
                1 + args.transfers[t].Message.len
                        \div SignatureMessageFragmentSizeTrinary

\* the number of transactions AddOutputs appends for a message of len trytes
NumSignatures(len) ==
    IF len > SignatureMessageFragmentSizeTrinary
    THEN 1 + len \div SignatureMessageFragmentSizeTrinary
    ELSE 1

\* the number of transactions before those of transfer t
RECURSIVE EntriesBefore(_, _)
EntriesBefore(trs, t) ==
    IF t <= 1 THEN 0
    ELSE NumSignatures(trs[t - 1].Message.len) + EntriesBefore(trs, t - 1)

\* C13, amended: for every transfer, AddOutputs appends, in the order of the
\* transfers, exactly 1 + floor(len(Message) / 2187) transactions at the
\* transfer's address when the message is longer than 2187 trytes, and exactly
\* one otherwise: one for a message of exactly 2187 trytes.
C13_EntriesPerTransfer ==
    op = "AddOutputs" =>
        /\ \A t \in 1..Len(args.transfers) :
              TransferEntries(bundle, args.transfers, t) =
                  {EntriesBefore(args.transfers, t) + j :
                      j \in 1..NumSignatures(args.transfers[t].Message.len)}
        /\ Len(bundle) =
              EntriesBefore(args.transfers, Len(args.transfers) + 1)

C13_Witness ==
    /\ op = "AddOutputs"
    /\ Len(args.transfers) = 2
    /\ args.transfers[1].Message.len = SignatureMessageFragmentSizeTrinary
    /\ args.transfers[2].Message.len = 2 * SignatureMessageFragmentSizeTrinary
    /\ Len(bundle) = 4
    /\ bundle[1].Address # bundle[2].Address
    /\ bundle[2].Address = bundle[4].Address

\* the trytes of the message a fragment holds: [id, lo, hi], or none
FragmentLength(f) == IF f = EmptySig THEN 0 ELSE f.msg[3] - f.msg[2]

\* the fragments fr are the message of transfer tr cut in order into pieces of
\* at most 2187 trytes
RECURSIVE IsSplitOf(_, _, _)
IsSplitOf(fr, tr, from) ==
    IF fr = <<>> THEN from >= tr.Message.len
    ELSE /\ FragmentLength(Head(fr)) <= SignatureMessageFragmentSizeTrinary
         /\ Head(fr) # EmptySig =>
               Head(fr).msg[1] = tr.Message.id /\ Head(fr).msg[2] = from
         /\ IsSplitOf(Tail(fr), tr, from + FragmentLength(Head(fr)))

\* C14: AddOutputs splits the message of each transfer into exactly as many
\* fragments as it appended transactions for the transfer, each of at most 2187
\* trytes and together the message, so that Finalize, which gives fragment i to
\* transaction i, puts the fragments of every transfer into the transactions
\* of that transfer.
C14_FragmentsFollowEntries ==
    /\ op = "AddOutputs" =>
          /\ Len(args.frags) = Len(bundle)
          /\ \A t \in 1..Len(args.transfers) :
                IsSplitOf(
                    SubSeq(args.frags,
                           EntriesBefore(args.transfers, t) + 1,
                           EntriesBefore(args.transfers, t + 1)),
                    args.transfers[t], 0)
    /\ (op = "Finalize" /\ trail = <<"AddOutputs", "Finalize">>) =>
          \A i \in 1..Len(bundle), t \in 1..Len(args.transfers) :
              bundle[i].Address = args.transfers[t].Address =>
                  \/ bundle[i].SignatureMessageFragment = EmptySig
                  \/ bundle[i].SignatureMessageFragment.msg[1] =
                        args.transfers[t].Message.id

\* a bundle with the hashed contents of b: b with another Tag, fragment,
\* Bundle field and index fields in every transaction
SameHashedContents(b) ==
    {[i \in 1..Len(b) |->
        [b[i] EXCEPT !.Tag = Pad(<<5>>, ObsoleteTagTrinarySize \div 3),
                     !.SignatureMessageFragment = MsgFrag(9, 0, 1),
                     !.Bundle = [p \in 1..(HashSize \div 3) |-> 1],
                     !.CurrentIndex = @ + 1,
                     !.LastIndex = @ + 2]]}

\* C15: the bundle-hash retry loop is deterministic and idempotent.  Whenever
\* Finalize runs, every bundle with the same hashed contents gets the same
\* hash and the same ObsoleteTag from NormalizedHash; and when the bundle was
\* already finalized, Finalize gives the hash it gave before, with no
\* increment, and leaves the ObsoleteTag as it is.
C15_RetryLoopDeterministicIdempotent ==
    [][op' = "Finalize" =>
          /\ \A v \in SameHashedContents(bundle) :
                \A r \in {NormalizedHash(v)} :
                    /\ r.hash = h'.hash
                    /\ r.bundle[1].ObsoleteTag = bundle'[1].ObsoleteTag
          /\ op = "Finalize" =>
                /\ h'.hash = h.hash
                /\ h'.incs = 0
                /\ \A i \in 1..Len(bundle) :
                      /\ bundle'[i].Bundle = bundle[i].Bundle
                      /\ bundle'[i].ObsoleteTag = bundle[i].ObsoleteTag]_vars

C15_Witness ==
    /\ op = "Finalize"
    /\ Len(trail) >= 3
    /\ trail[Len(trail) - 1] = "Finalize"
    /\ Len(bundle) >= 2
    /\ h.incs = 0
    /\ bundle[1].ObsoleteTag # bundle[1].Tag
    /\ bundle[1].Bundle = h.hash

RECURSIVE TagAfter(_, _)
TagAfter(t, k) == IF k = 0 THEN t ELSE TagAfter(IncTrits(t), k - 1)

\* the hash of bundle b with the tag of its first transaction advanced k times
HashAtTag(b, k) ==
    BufferHash(CopyAt(HashBuffer(b), ObsoleteTagOffset,
                      TagAfter(BufferTag(HashBuffer(b)), k)))

\* C20: NormalizedHash changes nothing in the bundle but the ObsoleteTag of
\* transaction 0; the tag it stores is the original tag advanced by the
\* smallest number k >= 0 of increments for which the normalized bundle hash
\* has no 13, and the hash it returns is the hash for that tag.
C20_OnlyFirstObsoleteTagBySmallestK ==
    op = "return" =>
        /\ bundle = [args.bundle0 EXCEPT ![1].ObsoleteTag = bundle[1].ObsoleteTag]
        /\ TrytesTrits(bundle[1].ObsoleteTag) =
              TagAfter(TrytesTrits(args.bundle0[1].ObsoleteTag), h.incs)
        /\ \A j \in 0..(h.incs - 1) : HasM(Normalize(HashAtTag(args.bundle0, j)))
        /\ ~HasM(Normalize(HashAtTag(args.bundle0, h.incs)))
        /\ h.hash = HashAtTag(args.bundle0, h.incs)
        /\ NormalizedHash(args.bundle0) =
              [hash |-> h.hash, incs |-> h.incs, bundle |-> bundle]

\* a return after two increments or more, from a bundle of several
\* transactions with different tags
C20_Witness ==
    /\ op = "return"
    /\ h.incs >= 2
    /\ Len(bundle) >= 2
    /\ bundle[2].ObsoleteTag # args.bundle0[1].ObsoleteTag
    /\ bundle[1].Tag = args.bundle0[1].ObsoleteTag

\* the requests and PoW runs of the trail with the name op
Invoked(name) == {i \in 1..Len(trail) : trail[i] = name}

\* C17: SendTrytes calls attachToTangle only if no PoW function is supplied,
\* and DoPoW only if one is; once the tips are there and the proof of work
\* has been asked for, it was asked of the node exactly if pow is nil, and of
\* DoPoW exactly if it is not.
C17_AttachToTangleIffNoPow ==
    /\ Invoked("attachToTangle") # {} => args.pow = "nil"
    /\ Invoked("DoPoW") # {} => args.pow # "nil"
    /\ Len(trail) >= 2 =>
          /\ args.pow = "nil" <=> trail[2] = "attachToTangle"
          /\ args.pow # "nil" <=> trail[2] = "DoPoW"

\* a call with a PoW function that went through to the end, and whose
\* bundle carries the tips
C17_Witness ==
    /\ op = "return"
    /\ err = "nil"
    /\ args.pow = "func"
    /\ trail = <<"getTransactionsToApprove", "DoPoW", "broadcastTransactions",
                 "storeTransactions">>
    /\ h.bundle = bundle
    /\ bundle[Len(bundle)].TrunkTransaction = args.tra.trunk

\* the operations of SendTrytes in their order
SendOrder(pow) ==
    <<"getTransactionsToApprove", IF pow = "nil" THEN "attachToTangle" ELSE "DoPoW",
      "broadcastTransactions", "storeTransactions">>

InputPositions(a) ==
    {i \in 1..Len(a.spentAddrs) :
        ~a.answers[3].val[i] /\ a.answers[2].val[i].Value > 0}

\* C18: what GetAccountData returns does not depend on the order in which the
\* three requests complete.  It returns after all three have finished; the
\* error is that of the first of bundles, balances, spent states that
\* failed, whichever finished first; and without an error the result is made
\* of the three answers by position: the k-th input is the k-th address that
\* is not spent from and has a positive balance, with that address's balance
\* and the key index startIndex + position.
C18_ResultIndependentOfCompletionOrder ==
    (op = "return" /\ args.answers # <<>>) =>
        /\ Len(trail) = 3
        /\ err = firstNonNulErr(<<args.answers[1].err, args.answers[2].err,
                                  args.answers[3].err>>)
        /\ err # "nil" => h.ret = NoAccountData
        /\ err = "nil" =>
              /\ h.ret = AccountDataOf(args.answers[1].val, args.answers[2].val,
                                       args.answers[3].val, args)
              /\ h.ret.Transfers = args.answers[1].val
              /\ Len(h.ret.Inputs) = Cardinality(InputPositions(args))
              /\ \A i \in InputPositions(args) :
                    h.ret.Inputs[Cardinality({j \in InputPositions(args) : j <= i})] =
                        [Address |-> args.spentAddrs[i],
                         Value |-> args.answers[2].val[i].Value,
                         KeyIndex |-> args.startIndex + i - 1,
                         Security |-> args.securityLvl]

\* bundles and spent states both failed, the spent states finished first and
\* the bundles last
C18_Witness ==
    /\ op = "return"
    /\ trail = <<3, 2, 1>>
    /\ Len(args.spentAddrs) = 2
    /\ args.answers[1].err = "ErrBundles"
    /\ args.answers[2].err = "nil"
    /\ args.answers[3].err = "ErrSpent"
    /\ err = "ErrBundles"

\* the AddressInfos of the call whose address is that of transaction i
InfosOf(i) ==
    {k \in 1..Len(args.inputs) : InfoAddress(args.inputs[k]) = bundle[i].Address}

\* C21: after SignInputs returns nil, every input transaction i (Value < 0)
\* whose address is that of an AddressInfo of security s holds the signature
\* of the first chunk of the normalized bundle hash under the first key
\* fragment, and for j in 1..s-1 transaction i+j has the same address, Value 0
\* and the signature of chunk j mod 3 under key fragment j; the key is that of
\* the AddressInfo with the input's address.
C21_InputsSignedFragmentByFragment ==
    (op = "SignInputs" /\ err = "nil") =>
        \A i \in 1..Len(bundle) : \A k \in InfosOf(i) :
            bundle[i].Value < 0 =>
                /\ bundle[i].SignatureMessageFragment =
                      Sign(SubSeq(Normalize(bundle[1].Bundle), 1, Unit),
                           NewKey(args.inputs[k].Seed, args.inputs[k].Index,
                                  args.inputs[k].Security)[1])
                /\ \A j \in 1..(args.inputs[k].Security - 1) :
                      /\ i + j <= Len(bundle)
                      /\ bundle[i + j].Address = bundle[i].Address
                      /\ bundle[i + j].Value = 0
                      /\ bundle[i + j].SignatureMessageFragment =
                            Sign(SubSeq(Normalize(bundle[1].Bundle),
                                        (j % 3) * Unit + 1, (j % 3) * Unit + Unit),
                                 NewKey(args.inputs[k].Seed, args.inputs[k].Index,
                                        args.inputs[k].Security)[j + 1])

\* an input of security 3 at the second key index, signed, after an output
C21_Witness ==
    /\ op = "SignInputs"
    /\ err = "nil"
    /\ Len(bundle) >= 4
    /\ bundle[1].Value > 0
    /\ bundle[2].Value < 0
    /\ bundle[2].Address = NewAddress(Seed, 1, 3)
    /\ bundle[4].SignatureMessageFragment.key = <<Seed, 2, 3>>

\* Transaction.HasValidNonce for a PowFunc that meets mwm: the nonce is the
\* one found for the trytes the transaction has now
HasValidNonce(t) == t.Nonce = PowNonce(Trytes(t))

\* C22: after DoPoW returns nil, every transaction of the slice has a valid
\* nonce for the field values it ends with: trunk, branch and attachment
\* timestamps are not changed after the nonce of the transaction was found.
C22_NoncesValidOnFinalFields ==
    (op = "DoPoW" /\ err = "nil") =>
        \A i \in 1..Len(bundle) : HasValidNonce(bundle[i])

\* a bundle of three transactions or more after DoPoW, the first of which
\* got its trunk from the second
C22_Witness ==
    /\ op = "DoPoW"
    /\ err = "nil"
    /\ Len(bundle) >= 3
    /\ bundle[1].TrunkTransaction = TxHash(bundle[2])
    /\ bundle[1].Nonce # NoNonce
    /\ bundle[1].AttachmentTimestamp # <<>>

\* the trits lo .. hi-1 of the Value field of frame s are all 0; lo and hi
\* are multiples of 3, and a tryte is '9' exactly when its three trits are 0
ValueTritsZero(s, lo, hi) ==
    \A m \in s.marks :
        ~(m[1] >= (ValueTrinaryOffset + lo) \div 3
          /\ m[1] < (ValueTrinaryOffset + hi) \div 3)

\* a frame of valid trytes of the length of a transaction
FullFrame(s) == TrytesIsValid(s) /\ s.len = TransactionTrinarySize \div 3

\* C23 as stated: the trytes checked are the upper 33 trits of Value, so a
\* frame passes the check exactly when the upper 33 trits of its Value are 0
C23_CheckedTrytesAreUpper33Trits ==
    (parsed.phase = "NewTransaction" /\ FullFrame(parsed.in))
        => (parsed.err = "nil"
              <=> ValueTritsZero(parsed.in, FrameValueTrinarySize - 33,
                                 FrameValueTrinarySize))

\* C23 amended: the 16 trytes [2279,2295) are the trits 33 .. 80 of the
\* 81-trit Value field at trit offset 6804, its upper 48 trits, so a frame
\* of valid trytes and of the right length passes the check exactly when
\* the trits 33 .. 80 of its Value are 0 and the value lies in the lower 33
C23_CheckedTrytesAreValueTritsFrom33 ==
    /\ ValueTrinaryOffset = 6804 /\ FrameValueTrinarySize = 81
    /\ 3 * CheckedFrom = ValueTrinaryOffset + 33
    /\ 3 * CheckedTo = ValueTrinaryOffset + FrameValueTrinarySize
    /\ (parsed.phase = "NewTransaction" /\ FullFrame(parsed.in))
          => (parsed.err = "nil"
                <=> ValueTritsZero(parsed.in, 33, FrameValueTrinarySize))

\* a frame with a value in the lower 33 trits is accepted, one with a trit
\* of Value from 33 on is refused
C23_Witness ==
    /\ parsed.phase = "NewTransaction" /\ FullFrame(parsed.in)
    /\ parsed.err = "nil"
    /\ <<CheckedFrom - 1, "A">> \in parsed.in.marks
    /\ ~ValueTritsZero(parsed.in, 0, 33)

\* C24: TraverseBundle on the hash of a tail returns LastIndex + 1
\* transactions, the tail first and every later one the transaction the
\* TrunkTransaction of the one before refers to; on the hash of a
\* transaction that is no tail it returns ErrInvalidTailTransactionHash.
C24_TraverseFollowsTrunks ==
    (op = "return" /\ trail[1].err = "nil")
        => LET tail == StoredAt(args.stored, args.tailTransactionHash)
           IN  IF tail.CurrentIndex # 0
               THEN h.err = "ErrInvalidTailTransactionHash"
               ELSE h.err = "nil"
                      => /\ Len(h.bundle) = tail.LastIndex + 1
                         /\ h.bundle[1] = tail
                         /\ \A i \in 2..Len(h.bundle) :
                               h.bundle[i]
                                 = StoredAt(args.stored, h.bundle[i - 1].TrunkTransaction)

\* the node answered without error / reported index j (1-based answer) unused
AnswerFailed(a) == a.err1 # "nil" \/ a.err2 # "nil"

AnswerUnused(a) == ~AnswerFailed(a) /\ a.hashes = 0 /\ a.spentStates = <<FALSE>>

\* the places of the events of index j in the trail
EventsOf(name, j) == {p \in 1..Len(trail) : trail[p] = <<name, j>>}

\* C25: GetUntilFirstUnusedAddress returns the address of the smallest index
\* k the node reports as without transactions and unspent, with the
\* addresses of 0 .. k-1 in order; the indices are probed in increasing
\* order, both lookups of an index are joined before the next index is
\* probed, and the first node error ends the search and is returned with no
\* addresses.
C25_UntilFirstUnusedInOrder ==
    /\ \A p \in 1..Len(trail), q \in 1..Len(trail) :
          p < q => trail[p][2] <= trail[q][2]
    /\ \A j \in 0..MaxIndex :
          \A p \in EventsOf("NewAddress", j) :
              /\ Cardinality(EventsOf("NewAddress", j)) = 1
              /\ j > 0 =>
                    \E a \in EventsOf("findTransactions", j - 1),
                       b \in EventsOf("wereAddressesSpentFrom", j - 1),
                       w \in EventsOf("Wait", j - 1) :
                        a < w /\ b < w /\ w < p
    /\ op = "return" =>
          LET n == Len(args.answers)
              last == args.answers[n]
          IN  /\ \A j \in 1..(n - 1) :
                    ~AnswerFailed(args.answers[j]) /\ ~AnswerUnused(args.answers[j])
              /\ IF AnswerFailed(last)
                 THEN /\ h.ret.err = (IF last.err1 # "nil" THEN last.err1 ELSE last.err2)
                      /\ h.ret.adr = <<>> /\ h.ret.all = <<>>
                 ELSE /\ AnswerUnused(last)
                      /\ h.ret.err = "nil"
                      /\ h.ret.adr = NewAddress(Seed, n - 1, args.security)
                      /\ h.ret.all = [j \in 1..(n - 1) |->
                                        NewAddress(Seed, j - 1, args.security)]

\* the third address is the first unused one, after one address with
\* transactions and one that was spent from, the lookups finishing in both orders
C25_Witness ==
    /\ op = "return" /\ h.ret.err = "nil" /\ Len(h.ret.all) = 2
    /\ args.answers[1].hashes = 1 /\ args.answers[2].spentStates = <<TRUE>>
    /\ \E a \in EventsOf("findTransactions", 0),
          b \in EventsOf("wereAddressesSpentFrom", 0) : a < b
    /\ \E a \in EventsOf("findTransactions", 1),
          b \in EventsOf("wereAddressesSpentFrom", 1) : b < a

\* GetInputs is past its test of start and end
InpChecked == op \in {"addresses", "balances", "return"}

\* GetInputs returned ErrInvalidAddressStartEnd before any address was
\* generated and before any request to the node
InpRefused ==
    /\ op = "return" /\ h.ret = [balances |-> <<>>, err |-> "ErrInvalidAddressStartEnd"]
    /\ trail = <<>> /\ h.addrs = <<>>

C27_KeyIndexDerivesAddress ==
    (op = "return" /\ err = "nil")
        => \A i \in 1..Len(h.ret.balances) :
              NewAddress(Seed, h.ret.balances[i].KeyIndex, args.security)
                = h.ret.balances[i].Address

\* the bundle is as Finalize left it, but for the signatures SignInputs wrote
AsFinalized ==
    \/ op \in {"Finalize", "SignInputs"}
    \/ /\ op = "IsValid" /\ Len(trail) >= 2
       /\ trail[Len(trail) - 1] \in {"Finalize", "SignInputs"}

\* C28: Bundle.Hash, which absorbs the hashed trits transaction by
\* transaction from one buffer, computes the hash NormalizedHash returned
\* from its single buffer for the bundle with the tag it stored; so after
\* Finalize, and when SignInputs and IsValid call it, Hash() is the Bundle
\* field of every transaction.
C28_HashIsTheHashCarried ==
    /\ AsFinalized =>
          \A hash \in {Hash(bundle)} :
              /\ hash = h.hash
              /\ \A i \in 1..Len(bundle) : bundle[i].Bundle = hash
    /\ (op = "PrepareTransfers" /\ err = "nil") =>
          \A hash \in {Hash(bundle)} :
              \A i \in 1..Len(bundle) : bundle[i].Bundle = hash

\* IsValid on a signed bundle of three transactions at two addresses, whose
\* tag NormalizedHash had to increment
C28_Witness ==
    /\ op = "IsValid" /\ err = "nil"
    /\ Len(trail) >= 2 /\ trail[Len(trail) - 1] = "SignInputs"
    /\ h.incs >= 1
    /\ Len(bundle) >= 3
    /\ bundle[1].Address # bundle[2].Address
    /\ bundle[3].Bundle = Hash(bundle)

\* C29: SignInputs never reads or writes a position >= len(bundle), for
\* every bundle PrepareTransfers builds: the positions i+1 .. i+s-1 it
\* inspects for an input at i with an AddressInfo of security s exist, also
\* when that security differs from the security argument or the input is the
\* last entry.
C29_SignInputsStaysInRange ==
    op = "PrepareTransfers" =>
        /\ err # "panic"
        /\ err = "nil" =>
              \A i \in 1..Len(bundle) : \A k \in InfosOf(i) :
                  bundle[i].Value < 0 => i + args.inputs[k].Security - 1 <= Len(bundle)

\* the places of the tryte fields in TransactionFields
TryteFields == {1, 2, 4, 8, 9, 10, 11, 12, 13, 14, 15}

\* the tryte fields of t have the lengths of the frame, the Address is a
\* valid address of 81 trytes and the Value lies within 33 trits
FitsFrame(t) ==
    /\ \A k \in TryteFields :
          /\ FieldTrytes(t)[k].len = TransactionFields[k][2] \div 3
          /\ TrytesIsValid(FieldTrytes(t)[k])
    /\ t.Value[4] = 0

\* C30 as stated: for every transaction whose tryte fields have their frame
\* lengths, whose Address is valid and whose Value lies within 33 trits,
\* Trytes() is 2673 trytes and NewTransaction of it succeeds and equals the
\* transaction field by field; and Trytes() of a transaction parsed from
\* accepted trytes s is s.
C30_CodecRoundTripEveryField ==
    /\ (parsed.phase = "TrytesNewTransaction" /\ FitsFrame(parsed.t)) =>
          /\ parsed.in.len = 2673
          /\ parsed.err = "nil"
          /\ parsed.tx = parsed.t
    /\ (parsed.phase = "NewTransactionTrytes" /\ parsed.err = "nil") =>
          parsed.out = parsed.in

\* C30 amended: the same for transactions whose Timestamp is a whole number
\* of seconds; of any Timestamp the frame holds the Unix second only, so the
\* parsed transaction equals the encoded one but for the nanoseconds of the
\* Timestamp, which are 0.
C30_CodecRoundTripToTheSecond ==
    /\ (parsed.phase = "TrytesNewTransaction" /\ FitsFrame(parsed.t)) =>
          /\ parsed.in.len = 2673
          /\ parsed.err = "nil"
          /\ parsed.tx = [parsed.t EXCEPT !.Timestamp.nsec = 0]
          /\ parsed.t.Timestamp.nsec = 0 => parsed.tx = parsed.t
    /\ (parsed.phase = "NewTransactionTrytes" /\ parsed.err = "nil") =>
          parsed.out = parsed.in

\* the largest negative value of 33 trits, in a transaction with trytes at
\* both ends of the signature, the address and the tag, comes back as it was
C30_Witness ==
    /\ parsed.phase = "TrytesNewTransaction" /\ FitsFrame(parsed.t)
    /\ parsed.t.Value = <<-MaxLimb, -MaxLimb, -MaxLimb, 0>>
    /\ parsed.t.Timestamp = [sec |-> 5, nsec |-> 0]
    /\ parsed.t.SignatureMessageFragment.marks # {}
    /\ parsed.t.Address.marks # {} /\ parsed.t.Tag.marks # {}
    /\ parsed.err = "nil" /\ parsed.tx = parsed.t

====
